---- MODULE Spec2Model ----
(***************************************************************************)
(* Verification model of clawpot: the VM lifecycle state machine, the IP  *)
(* allocator, the VM registry, the host network fabric and the RPC        *)
(* service (create_vm / delete_vm / list_vms / exec_vm) together with the *)
(* shutdown cleanup of the server.                                        *)
(*                                                                         *)
(* Addresses are modelled by their offset from network_base               *)
(* (192.168.100.0): offset 1 is the gateway, offset 2 is the first guest  *)
(* address.  A TAP device is named after its VM (tap-<uuid prefix>), so a *)
(* TAP is identified by the VM id.                                        *)
(***************************************************************************)
EXTENDS Integers, Sequences, FiniteSets, TLC

\* ---------------------------------------------------------------- bounds
\* Number of slots of the allocation bitmap (253 in the program).
PoolSize == 3
\* Number of VM ids Uuid::new_v4 can hand out in one run.
MaxVms == 2
\* Number of RPC calls that can be in flight at the same time.
MaxCalls == 2
\* Number of transition_to calls made on one VmLifecycle value.
MaxTransitions == 5
\* Number of direct allocate/release calls made on one IpAllocator.
MaxAllocCalls == 6
\* Number of calls made on the VmManager under direct test.
MaxMgrCalls == 5
\* Number of bytes of a DNS query after its 12-byte header.
MaxQuestion == 3
\* Number of requests the proxies accept in one run.
MaxRequests == 2
\* Number of components that emit events, and of events each one emits.
MaxComponents == 2
MaxEmits == 2
\* Number of direct NetworkManager calls in one run, and of rules left in a
\* chain by earlier runs.
MaxNetCalls == 3
\* Largest count kept of the teardown steps run on one VM.
MaxTeardowns == 2
\* Number of tasks calling get_or_create_cert, and of leaves minted.
MaxCertTasks == 3
MaxLeaves == 4
\* Number of requests with a body handled concurrently.
MaxBodyRequests == 3
MaxStaleRules == 2

VARIABLES
    \* VmLifecycle under direct test
    lc_state, lc_old, lc_new, lc_ok, lc_calls,
    \* IpAllocator
    allocated, next_index,
    \* history of the allocator under direct test: the live addresses, the
    \* last call (and whether it returned an address returned before), the
    \* number of calls; the addresses ever returned, per
    \* address the slots the cursor moved over since it was last returned,
    \* and the number of allocate calls since it was released (-1: none
    \* pending)
    a_live, a_last, a_calls, a_ever, a_swept, a_freed,
    \* VmRegistry: vm id -> VmEntry
    vm_registry,
    \* host network: TAP devices and the FORWARD chain of the packet filter
    taps, forward,
    \* live hypervisor child processes and host-side guest socket files
    children, vsocks,
    \* number of ids Uuid::new_v4 has handed out
    next_id,
    \* the RPC calls in flight, the response a call has just returned, the
    \* shutdown task
    calls, last, sd,
    \* history: how often create_vm returned each id with success, the ids
    \* removed from the registry, the ids whose delete_vm returned success
    created, removed, deleted,
    \* VmManager under direct test: the manager, the result of the last call,
    \* the number of calls made
    mgr, mgr_last, mgr_calls,
    \* DNS proxy, REFUSED synthesis under direct test: the query packet and
    \* the response built from it
    dns_query, dns_resp,
    \* HTTP and DNS proxies: the requests being handled, the rows of the
    \* network_requests table
    px_reqs, px_rows,
    \* EventStore: persist mode, next local id, each component's emit in
    \* progress and number of emits, the channel to the writer, the writer's
    \* position and batch, the rows of the events table; history: the events
    \* in the order they entered the channel, the number of committed batches,
    \* whether close_session was called; the session row's stopped_at and
    \* the oneshot acknowledgement of Close; history: the events of batches
    \* whose transaction failed, the events sent before close_session, the
    \* events whose emit returned and whether the writer was still running
    ev_mode, ev_next_id, ev_pending, ev_count, ev_chan, ev_writer, ev_batch,
    ev_table, ev_sent, ev_flushes, ev_closing,
    ev_stopped_at, ev_acked, ev_failed, ev_before_close, ev_emitted,
    \* NetworkManager: whether the bridge device exists, the PREROUTING chain
    \* of the nat table; history: the NetworkManager calls made directly
    bridge, nat, net_hist,
    \* create_vm parameters under direct test: the request, the VmEntry
    \* create_vm stored for it, what list_vms reported
    pr_req, pr_entry, pr_listed,
    \* BodyStore and the request log under direct test: the requests being
    \* logged, the rows of the log, the files of the storage directory (file
    \* name -> the request whose body it holds, 0: no file)
    bs_reqs, bs_rows, bs_files,
    \* CertificateAuthority under direct test: the leaf cache (domain -> leaf,
    \* 0: none), the task holding the cache mutex (0: free), the tasks calling
    \* get_or_create_cert, the domains of the leaves minted so far (a leaf is
    \* named by its position) and the (domain, leaf) pairs returned so far
    ca_cache, ca_lock, ca_tasks, ca_minted, ca_returned,
    \* history: per id how often its entry was taken out of the registry, its
    \* hypervisor stopped and its address released by a teardown
    torn

lcVars    == <<lc_state, lc_old, lc_new, lc_ok, lc_calls>>
allocVars == <<allocated, next_index>>
aHist     == <<a_live, a_last, a_calls, a_ever, a_swept, a_freed>>
netVars   == <<taps, forward>>
hostVars  == <<children, vsocks>>
histVars  == <<created, removed, deleted, torn>>
srvVars   == <<vm_registry, netVars, hostVars, next_id, calls, last, sd, histVars>>
mgrVars   == <<mgr, mgr_last, mgr_calls>>
\* the state that no RPC, shutdown or allocator step touches
dnsVars   == <<dns_query, dns_resp>>
pxVars    == <<px_reqs, px_rows>>
evVars    == <<ev_mode, ev_next_id, ev_pending, ev_count, ev_chan, ev_writer, ev_batch,
               ev_table, ev_sent, ev_flushes, ev_closing,
               ev_stopped_at, ev_acked, ev_failed, ev_before_close, ev_emitted>>
brVars    == <<bridge, nat, net_hist>>
\* components under direct test one at a time: request parameters
auxVars == <<pr_req, pr_entry, pr_listed, bs_reqs, bs_rows, bs_files, ca_cache, ca_lock, ca_tasks, ca_minted, ca_returned>>
caVars == <<ca_cache, ca_lock, ca_tasks, ca_minted, ca_returned>>
unitVars  == <<lcVars, mgrVars, dnsVars, pxVars, evVars, brVars, auxVars>>
\* what a step of one component under direct test leaves alone
exceptLc  == <<allocVars, aHist, srvVars, mgrVars, dnsVars, pxVars, evVars, brVars,
               auxVars>>
exceptMgr == <<allocVars, aHist, srvVars, lcVars, dnsVars, pxVars, evVars, brVars,
               auxVars>>
exceptDns == <<allocVars, aHist, srvVars, lcVars, mgrVars, pxVars, evVars, brVars,
               auxVars>>
\* what a step of a proxy leaves alone
exceptPx  == <<allocVars, aHist, srvVars, lcVars, mgrVars, dnsVars, evVars, brVars,
               auxVars>>
\* what a step of the event store leaves alone
exceptEv  == <<allocVars, aHist, srvVars, lcVars, mgrVars, dnsVars, pxVars, brVars,
               auxVars>>
\* what a direct call of the NetworkManager leaves alone
exceptNet == <<allocVars, aHist, vm_registry, hostVars, next_id, calls, last, sd, histVars,
               lcVars, mgrVars, dnsVars, pxVars, evVars,
               auxVars>>
\* what a step of a component of auxVars leaves alone
exceptAux == <<allocVars, aHist, srvVars, lcVars, mgrVars, dnsVars, pxVars, evVars, brVars>>
vars      == <<unitVars, allocVars, aHist, srvVars>>

\* ------------------------------------------------- create_vm parameters
\* No request, entry or listing; an Option that is None.
NoParams == [vcpu |-> -1, mem |-> -1]
None == -1

\* vcpu_count and mem_size_mib of CreateVmRequest: optional unsigned 32-bit
\* integers, sampled around the defaults, the limits of validate and the
\* width of u8.
ParamRequests ==
    [vcpu : {None, 0, 1, 2, 3, 4, 255, 256, 257, 258, 511, 512},
     mem  : {None, 0, 127, 128, 256, 512}]

\* The number of values of a u8.
U8Values == 256

\* `as u8` on an unsigned integer: the low eight bits.
AsU8(n) == n % U8Values

\* create_vm from the parameters to the VmEntry: unwrap_or, the cast of
\* vcpu_count to u8, VmConfig::validate inside VmManager::start (vcpu_count 0
\* and mem_size_mib below 128 are rejected), the rest of start, the entry.
ParamCreate(req, startok) ==
    /\ pr_req = NoParams
    /\ pr_req' = req
    /\ LET vcpu_count == AsU8(IF req.vcpu = None THEN 1 ELSE req.vcpu)
           mem_size_mib == IF req.mem = None THEN 256 ELSE req.mem
       IN pr_entry' = IF vcpu_count = 0 \/ mem_size_mib < 128 \/ ~startok
                      THEN NoParams
                      ELSE [vcpu |-> vcpu_count, mem |-> mem_size_mib]
    /\ UNCHANGED <<pr_listed, bs_reqs, bs_rows, bs_files, caVars, exceptAux>>

\* list_vms for the VM: u32::from(vcpu_count) and mem_size_mib of the entry.
ParamList ==
    /\ pr_entry # NoParams
    /\ pr_listed = NoParams
    /\ pr_listed' = [vcpu |-> pr_entry.vcpu, mem |-> pr_entry.mem]
    /\ UNCHANGED <<pr_req, pr_entry, bs_reqs, bs_rows, bs_files, caVars, exceptAux>>

\* ---------------------------------------------------- CertificateAuthority
CertDomains == {"a.test", "b.test"}
CertTasks == 1 .. MaxCertTasks
NoCertTask == [pc |-> "idle", domain |-> "a.test"]

\* cache.get(domain), always a miss.
lookup_miss(cache, domain) == 0
\* cache.get(domain): the cached leaf, 0 for None.
lookup(cache, domain) == cache[domain]

\* get_or_create_cert, first line: the task takes the cache mutex, waiting
\* while another task holds it.
CertLock(t, domain) ==
    /\ ca_tasks[t].pc = "idle"
    /\ ca_lock = 0
    /\ Len(ca_minted) < MaxLeaves
    /\ ca_lock' = t
    /\ ca_tasks' = [ca_tasks EXCEPT ![t] = [pc |-> "locked", domain |-> domain]]
    /\ UNCHANGED <<ca_cache, ca_minted, ca_returned, pr_req, pr_entry, pr_listed,
                   bs_reqs, bs_rows, bs_files, exceptAux>>

\* get_or_create_cert, the rest, with the mutex held: a cached leaf is
\* returned; else a leaf is generated and signed (genok: both succeed),
\* inserted and returned.  The guard is dropped on every return.
CertFinish(t, genok) ==
    /\ ca_tasks[t].pc = "locked"
    /\ ca_lock = t
    /\ LET domain == ca_tasks[t].domain
           cached == lookup(ca_cache, domain)
           leaf == Len(ca_minted) + 1
       IN IF cached # 0
          THEN /\ ca_returned' = ca_returned \cup {<<domain, cached>>}
               /\ UNCHANGED <<ca_cache, ca_minted>>
          ELSE IF genok
          THEN /\ ca_minted' = Append(ca_minted, domain)
               /\ ca_cache' = [ca_cache EXCEPT ![domain] = leaf]
               /\ ca_returned' = ca_returned \cup {<<domain, leaf>>}
          ELSE UNCHANGED <<ca_cache, ca_minted, ca_returned>>
    /\ ca_lock' = 0
    /\ ca_tasks' = [ca_tasks EXCEPT ![t].pc = "idle"]
    /\ UNCHANGED <<pr_req, pr_entry, pr_listed, bs_reqs, bs_rows, bs_files, exceptAux>>

\* --------------------------------------------------------------- BodyStore
DEFAULT_INLINE_THRESHOLD == 65536

BodyRequests == 1 .. MaxBodyRequests
\* Body lengths around the threshold.
BodyLens == {0, DEFAULT_INLINE_THRESHOLD - 1, DEFAULT_INLINE_THRESHOLD,
             DEFAULT_INLINE_THRESHOLD + 1}

\* A request that has not arrived; path -1: no path (None).
NoBodyRequest == [pc |-> "idle", len |-> 0, ok |-> FALSE, kind |-> "none", path |-> -1,
                  id |-> 0]

\* BodyStore::store: inline up to the threshold, else written to
\* <request_id>_<suffix>.bin; the file is named here by request_id.
store(request_id, len, writeok) ==
    IF len <= DEFAULT_INLINE_THRESHOLD
    THEN [ok |-> TRUE, kind |-> "inline", path |-> -1]
    ELSE IF writeok THEN [ok |-> TRUE, kind |-> "external", path |-> request_id]
    ELSE [ok |-> FALSE, kind |-> "none", path |-> -1]

\* handle_request_inner, step 3, first part: the body is stored under
\* request id 0.
BodyStoreFirst(r, len, writeok) ==
    /\ bs_reqs[r].pc = "idle"
    /\ \A q \in BodyRequests : q < r => bs_reqs[q].pc # "idle"
    /\ LET st == store(0, len, writeok) IN
         /\ bs_reqs' = [bs_reqs EXCEPT ![r] =
                [pc |-> "stored", len |-> len, ok |-> st.ok, kind |-> st.kind,
                 path |-> st.path, id |-> 0]]
         /\ bs_files' = IF st.kind = "external" THEN [bs_files EXCEPT ![0] = r]
                        ELSE bs_files
    /\ UNCHANGED <<bs_rows, pr_req, pr_entry, pr_listed, caVars, exceptAux>>

\* handle_request_inner, step 3, second part: log_request with the inline
\* body or the path; a failed insert gives request id 0.
BodyLogRequest(r, dbok) ==
    /\ bs_reqs[r].pc = "stored"
    /\ bs_rows' = IF dbok
                  THEN Append(bs_rows, [by |-> r, inline |-> bs_reqs[r].kind = "inline",
                                        path |-> bs_reqs[r].path])
                  ELSE bs_rows
    /\ bs_reqs' = [bs_reqs EXCEPT ![r].pc = "logged",
                                  ![r].id = IF dbok THEN Len(bs_rows) + 1 ELSE 0]
    /\ UNCHANGED <<bs_files, pr_req, pr_entry, pr_listed, caVars, exceptAux>>

\* handle_request_inner, step 3, last part: an externalized body is stored
\* again under the request id; the result is discarded.
BodyStoreAgain(r, writeok) ==
    /\ bs_reqs[r].pc = "logged"
    /\ bs_reqs' = [bs_reqs EXCEPT ![r].pc = "done"]
    /\ bs_files' = IF bs_reqs[r].id > 0 /\ bs_reqs[r].kind = "external"
                       /\ store(bs_reqs[r].id, bs_reqs[r].len, writeok).ok
                    THEN [bs_files EXCEPT ![bs_reqs[r].id] = r]
                    ELSE bs_files
    /\ UNCHANGED <<bs_rows, pr_req, pr_entry, pr_listed, caVars, exceptAux>>

\* ------------------------------------------------------------ VmLifecycle
VmState == {"NotStarted", "Starting", "Running", "Stopping", "Stopped", "Error"}

\* Variant of the transition table without the same-state arm.
is_valid_no_same(old, new) ==
    \/ new = "Error"
    \/ old = "NotStarted" /\ new = "Starting"
    \/ old = "Starting"   /\ new = "Running"
    \/ old = "Running"    /\ new = "Stopping"
    \/ old = "Stopping"   /\ new = "Stopped"
    \/ old = "Stopped"    /\ new = "Starting"
    \/ old = "Starting"   /\ new = "Stopping"
    \/ old = "Starting"   /\ new = "Stopped"

\* The match of transition_to: which (current, new) pairs are legal.
is_valid(old, new) ==
    \/ new = "Error"
    \/ old = "NotStarted" /\ new = "Starting"
    \/ old = "Starting"   /\ new = "Running"
    \/ old = "Running"    /\ new = "Stopping"
    \/ old = "Stopping"   /\ new = "Stopped"
    \/ old = "Stopped"    /\ new = "Starting"
    \/ old = "Starting"   /\ new = "Stopping"
    \/ old = "Starting"   /\ new = "Stopped"
    \/ old = new

\* Variant of transition_to that assigns the state before validating.
transition_to_assign_first(state, new) ==
    [ok |-> is_valid(state, new), state |-> new]

\* VmLifecycle::transition_to: the result and the state afterwards.
transition_to(state, new) ==
    IF ~is_valid(state, new)
    THEN [ok |-> FALSE, state |-> state]
    ELSE [ok |-> TRUE,  state |-> new]

\* One call of transition_to on the lifecycle under test.
LcTransition(new) ==
    /\ lc_calls < MaxTransitions
    /\ LET r == transition_to(lc_state, new) IN
         /\ lc_state' = r.state
         /\ lc_ok'    = r.ok
    /\ lc_old'   = lc_state
    /\ lc_new'   = new
    /\ lc_calls' = lc_calls + 1
    /\ UNCHANGED exceptLc

\* ------------------------------------------------------------ IpAllocator
\* Offset of the gateway, of the first and of the last guest address.
Gateway   == 1
FirstHost == 2
LastHost  == PoolSize + 1
\* An IPv6 address handed to release (the IpAddr::V6 variant); IPv4 offsets
\* are never negative.
V6 == -1
NoIp == 0

Slots == 0 .. (PoolSize - 1)

RECURSIVE AllocScan(_, _, _)
\* The for loop of allocate: the first i in 0..len-1 whose slot is free.
AllocScan(bits, next, i) ==
    IF i >= PoolSize
    THEN [ok |-> FALSE, ip |-> NoIp, allocated |-> bits, next_index |-> next]
    ELSE LET index == (next + i) % PoolSize IN
         IF ~bits[index]
         THEN [ok |-> TRUE, ip |-> FirstHost + index,
               allocated  |-> [bits EXCEPT ![index] = TRUE],
               next_index |-> (index + 1) % PoolSize]
         ELSE AllocScan(bits, next, i + 1)

RECURSIVE AllocScanWrongSlot(_, _, _)
\* Variant of the loop that converts the loop counter i instead of index to
\* the address.
AllocScanWrongSlot(bits, next, i) ==
    IF i >= PoolSize
    THEN [ok |-> FALSE, ip |-> NoIp, allocated |-> bits, next_index |-> next]
    ELSE LET index == (next + i) % PoolSize IN
         IF ~bits[index]
         THEN [ok |-> TRUE, ip |-> FirstHost + i,
               allocated  |-> [bits EXCEPT ![index] = TRUE],
               next_index |-> (index + 1) % PoolSize]
         ELSE AllocScanWrongSlot(bits, next, i + 1)

\* Variant of allocate that returns the address of the wrong slot.
allocate_wrong_slot(bits, next) == AllocScanWrongSlot(bits, next, 0)

\* Variant of allocate that forgets to mark the slot as allocated.
allocate_no_mark(bits, next) ==
    LET r == AllocScan(bits, next, 0) IN
    [r EXCEPT !.allocated = bits]

\* Variant of allocate that leaves the cursor where it was.
allocate_keep_cursor(bits, next) ==
    LET r == AllocScan(bits, next, 0) IN
    [r EXCEPT !.next_index = next]

\* Variant of allocate that scans from slot 0 whatever the cursor is.
allocate_from_zero(bits, next) ==
    LET r == AllocScan(bits, 0, 0) IN
    [r EXCEPT !.next_index = IF r.ok THEN r.next_index ELSE next]

\* Variant of allocate that resets the cursor when the pool is exhausted.
allocate_reset_on_fail(bits, next) ==
    LET r == AllocScan(bits, next, 0) IN
    [r EXCEPT !.next_index = IF r.ok THEN r.next_index ELSE 0]

\* IpAllocator::allocate
allocate(bits, next) == AllocScan(bits, next, 0)

\* Variant of release that returns Ok without clearing the bit.
release_no_clear(bits, ip) ==
    [ok |-> ip # V6 /\ ip >= FirstHost /\ ip <= LastHost, allocated |-> bits]

\* IpAllocator::release
release(bits, ip) ==
    IF ip = V6 THEN [ok |-> FALSE, allocated |-> bits]
    ELSE IF ip < FirstHost \/ ip > LastHost THEN [ok |-> FALSE, allocated |-> bits]
    ELSE LET index == ip - FirstHost IN
         IF index >= PoolSize THEN [ok |-> FALSE, allocated |-> bits]
         ELSE [ok |-> TRUE, allocated |-> [bits EXCEPT ![index] = FALSE]]

\* Addresses a caller can pass to release.
ReleaseInputs == (0 .. (LastHost + 1)) \cup {V6}

\* The slots the loop of allocate visits from the cursor up to the slot it
\* takes.
Sweep(next, ip) ==
    {(next + i) % PoolSize : i \in 0 .. ((ip - FirstHost + PoolSize - next) % PoolSize)}

\* A direct call of allocate.
AllocCall ==
    /\ a_calls < MaxAllocCalls
    /\ a_calls' = a_calls + 1
    /\ LET r == allocate(allocated, next_index) IN
         /\ allocated'  = r.allocated
         /\ next_index' = r.next_index
         /\ a_last' = [op |-> "allocate", ok |-> r.ok, ip |-> r.ip,
                       again |-> r.ok /\ r.ip \in a_ever]
         /\ a_live' = IF r.ok THEN a_live \cup {r.ip} ELSE a_live
         /\ a_ever' = IF r.ok THEN a_ever \cup {r.ip} ELSE a_ever
         /\ a_swept' = [ip \in FirstHost .. LastHost |->
                           IF ~r.ok THEN a_swept[ip]
                           ELSE IF ip = r.ip THEN {}
                           ELSE a_swept[ip] \cup Sweep(next_index, r.ip)]
         /\ a_freed' = [ip \in FirstHost .. LastHost |->
                           IF (r.ok /\ ip = r.ip) \/ a_freed[ip] < 0 THEN -1
                           ELSE a_freed[ip] + 1]
    /\ UNCHANGED <<unitVars, srvVars>>

\* A direct call of release.
ReleaseCall(ip) ==
    /\ a_calls < MaxAllocCalls
    /\ a_calls' = a_calls + 1
    /\ LET r == release(allocated, ip) IN
         /\ allocated' = r.allocated
         /\ a_last' = [op |-> "release", ok |-> r.ok, ip |-> ip, again |-> FALSE]
         /\ a_live' = IF r.ok THEN a_live \ {ip} ELSE a_live
         /\ a_freed' = IF r.ok THEN [a_freed EXCEPT ![ip] = 0] ELSE a_freed
    /\ UNCHANGED <<next_index, a_ever, a_swept, unitVars, srvVars>>

\* ------------------------------------------------------------- VmManager
\* VmManager::new: lifecycle NotStarted, no child process, no API socket file.
NewManager == [state |-> "NotStarted", child |-> FALSE, sock |-> FALSE]

\* Stages at which VmManager::start can fail ("ok": none fails).
StartOutcomes == {"ok", "validate", "rm_socket", "spawn", "socket", "configure", "instance"}

\* VmManager::start with the first failing stage given by out.
\* Variant of start that returns Ok without the transition to Running.
ManagerStart_stay_starting(m, out) ==
    IF out = "validate" THEN [ok |-> FALSE, m |-> m]
    ELSE LET t == transition_to(m.state, "Starting") IN
    IF ~t.ok THEN [ok |-> FALSE, m |-> m]
    ELSE LET m0 == [m EXCEPT !.state = t.state] IN
    IF m.sock /\ out = "rm_socket" THEN [ok |-> FALSE, m |-> m0]
    ELSE LET m1 == [m0 EXCEPT !.sock = FALSE] IN
    IF out = "spawn" THEN [ok |-> FALSE, m |-> m1]
    ELSE LET m2 == [m1 EXCEPT !.child = TRUE] IN
    IF out = "socket" THEN [ok |-> FALSE, m |-> m2]
    ELSE LET m3 == [m2 EXCEPT !.sock = TRUE] IN
    IF out \in {"configure", "instance"} THEN [ok |-> FALSE, m |-> m3]
    ELSE [ok |-> TRUE, m |-> m3]

ManagerStart(m, out) ==
    IF out = "validate" THEN [ok |-> FALSE, m |-> m]
    ELSE LET t == transition_to(m.state, "Starting") IN
    IF ~t.ok THEN [ok |-> FALSE, m |-> m]
    ELSE LET m0 == [m EXCEPT !.state = t.state] IN
    IF m.sock /\ out = "rm_socket" THEN [ok |-> FALSE, m |-> m0]
    ELSE LET m1 == [m0 EXCEPT !.sock = FALSE] IN
    IF out = "spawn" THEN [ok |-> FALSE, m |-> m1]
    ELSE LET m2 == [m1 EXCEPT !.child = TRUE] IN
    IF out = "socket" THEN [ok |-> FALSE, m |-> m2]
    ELSE LET m3 == [m2 EXCEPT !.sock = TRUE] IN
    IF out \in {"configure", "instance"} THEN [ok |-> FALSE, m |-> m3]
    ELSE LET r == transition_to(m3.state, "Running") IN
         [ok |-> r.ok, m |-> [m3 EXCEPT !.state = r.state]]

\* Steps of VmManager::stop that can emit a warning ("ok": none does).
StopOutcomes == {"ok", "ctrl_alt_del", "kill", "rm_socket"}

\* VmManager::stop: every step but the last transition only warns.
ManagerStop(m, out) ==
    LET t  == transition_to(m.state, "Stopping")
        m1 == [m EXCEPT !.state = t.state, !.child = FALSE,
                        !.sock = (m.sock /\ out = "rm_socket")]
        r  == transition_to(m1.state, "Stopped")
    IN [ok |-> r.ok, m |-> [m1 EXCEPT !.state = r.state],
        warned |-> (~t.ok \/ out # "ok")]

\* Drop for VmManager: kill the child if one is held, unlink the API socket.
ManagerDrop(m) == [m EXCEPT !.child = FALSE, !.sock = FALSE]

\* No call of the manager under direct test has returned yet.
NoMgrCall == [op |-> "none", ok |-> TRUE, out |-> "ok", past_spawn |-> FALSE]

\* A call of VmManager::start on the manager under direct test.
MgrStart(out) ==
    /\ mgr_calls < MaxMgrCalls
    /\ mgr_calls' = mgr_calls + 1
    /\ LET r == ManagerStart(mgr, out) IN
         /\ mgr' = r.m
         /\ mgr_last' = [op |-> "start", ok |-> r.ok, out |-> out,
                         past_spawn |-> /\ transition_to(mgr.state, "Starting").ok
                                        /\ out \in {"socket", "configure", "instance"}]
    /\ UNCHANGED exceptMgr

\* A call of VmManager::stop on the manager under direct test.
MgrStop(out) ==
    /\ mgr_calls < MaxMgrCalls
    /\ mgr_calls' = mgr_calls + 1
    /\ LET r == ManagerStop(mgr, out) IN
         /\ mgr' = r.m
         /\ mgr_last' = [op |-> "stop", ok |-> r.ok, out |-> out, past_spawn |-> FALSE]
    /\ UNCHANGED exceptMgr

\* The process that owns the manager ends (the manager is dropped) and a new
\* process makes a new manager for the same socket path.
MgrRenew ==
    /\ mgr_calls < MaxMgrCalls
    /\ mgr_calls' = mgr_calls + 1
    /\ mgr' = [NewManager EXCEPT !.sock = ManagerDrop(mgr).sock]
    /\ mgr_last' = NoMgrCall
    /\ UNCHANGED exceptMgr

\* -------------------------------------------------------------- DNS proxy
RECURSIVE BitAnd(_, _)
\* The & of two bytes.
BitAnd(x, y) ==
    IF x = 0 \/ y = 0 THEN 0
    ELSE (x % 2) * (y % 2) + 2 * BitAnd(x \div 2, y \div 2)

RECURSIVE BitOr(_, _)
\* The | of two bytes.
BitOr(x, y) ==
    IF x = 0 THEN y
    ELSE IF y = 0 THEN x
    ELSE (IF x % 2 = 1 \/ y % 2 = 1 THEN 1 ELSE 0) + 2 * BitOr(x \div 2, y \div 2)

\* Length of the DNS header.
DnsHeaderLen == 12

\* Variant of build_refused_response that answers with the header alone.
build_refused_response_header_only(query) ==
    IF Len(query) < DnsHeaderLen THEN <<>>
    ELSE [i \in 1 .. DnsHeaderLen |->
            IF i = 3 THEN BitAnd(BitOr(query[3], 128), 253)
            ELSE IF i = 4 THEN BitOr(BitAnd(query[4], 240), 5)
            ELSE IF i \in 7 .. 12 THEN 0
            ELSE query[i]]

\* build_refused_response; resp[k] of the code is element k + 1 here.
build_refused_response(query) ==
    IF Len(query) < DnsHeaderLen THEN <<>>
    ELSE [i \in 1 .. Len(query) |->
            IF i = 3 THEN BitAnd(BitOr(query[3], 128), 253)
            ELSE IF i = 4 THEN BitOr(BitAnd(query[4], 240), 5)
            ELSE IF i \in 7 .. 12 THEN 0
            ELSE query[i]]

\* The query packets tried: samples of the header fields (the first flags
\* byte with each of QR, AA, TC, RD alone, none and all), a question of up to
\* MaxQuestion bytes; and the packets shorter than a header.
DnsIds == {<<0, 0>>, <<18, 52>>}
DnsFlags2 == {0, 1, 2, 4, 128, 133, 255}
DnsFlags3 == {0, 143, 255}
DnsCounts == {<<0, 1>>, <<1, 0>>}
DnsCountByte == {0, 255}
DnsQuestion(n) == [i \in 1 .. n |-> 16 + i]
DnsPackets ==
    {[i \in 1 .. n |-> 7] : n \in 0 .. (DnsHeaderLen - 1)} \cup
    {id \o <<f2, f3>> \o qd \o <<an, an, ns, ns, ar, ar>> \o DnsQuestion(n) :
        id \in DnsIds, f2 \in DnsFlags2, f3 \in DnsFlags3, qd \in DnsCounts,
        an \in DnsCountByte, ns \in DnsCountByte, ar \in DnsCountByte,
        n \in 0 .. MaxQuestion}

\* The proxy builds the REFUSED response to a denied query (one query is
\* tried in a run).
DnsRefuse(q) ==
    /\ dns_query = <<>>
    /\ dns_query' = q
    /\ dns_resp' = build_refused_response(q)
    /\ UNCHANGED exceptDns

\* ---------------------------------------------------- HTTP and DNS proxies
Requests == 1 .. MaxRequests

\* The address of the TLS MITM's connection to the HTTP proxy (127.0.0.1).
Loopback == -2
\* The vm_id "unknown" of a request whose peer address no VM holds.
UnknownVm == 0

\* VmRegistry::find_by_ip: the VM that holds the address, if any.
FindByIp(reg, ip) ==
    IF \E v \in DOMAIN reg : reg[v].ip = ip
    THEN CHOOSE v \in DOMAIN reg : reg[v].ip = ip
    ELSE UnknownVm

\* Outcomes of the authorization call: the client is Disabled, or the
\* service answers allow or deny, or the call fails.
AuthOutcomes == {"disabled", "allow", "deny", "fail"}

\* Variant of authorize that lets the request through when the call fails.
authorize_fail_open(out) == out \in {"disabled", "allow", "fail"}

\* AuthClient::authorize_http / authorize_dns: the allowed flag.
authorize(out) == out \in {"disabled", "allow"}

\* Variant of log_request that returns the row count read before its insert.
log_request_stale_id(rows, row, ok) ==
    IF ok THEN [rows |-> Append(rows, row), id |-> Len(rows)]
    ELSE [rows |-> rows, id |-> 0]

\* RequestDb::log_request: insert a row and return its rowid; the caller
\* turns an error into request_id 0.
log_request(rows, row, ok) ==
    IF ok THEN [rows |-> Append(rows, row), id |-> Len(rows) + 1]
    ELSE [rows |-> rows, id |-> 0]

\* RequestDb::log_response, called when request_id > 0; the caller discards
\* its result. by is the request that records the response.
log_response(rows, id, by, ok) ==
    IF id > 0 /\ ok /\ id \in DOMAIN rows
    THEN [rows EXCEPT ![id].responses = Append(@, by)]
    ELSE rows

\* A request slot not in use.
NoRequest ==
    [kind |-> "none", pc |-> "idle", src |-> NoIp, peer |-> NoIp, guest |-> UnknownVm,
     pkt |-> <<>>, vm_id |-> UnknownVm, request_id |-> 0, auth |-> "none",
     forwarded |-> FALSE, reply |-> "none"]

\* The DNS query packets a guest sends: one shorter than a header, one whole.
DnsSamples == {<<7, 7>>, <<18, 52, 1, 0, 0, 1, 0, 0, 0, 0, 0, 0>>}

\* Slot r takes the next request.
PxFree(r) ==
    /\ px_reqs[r].pc = "idle"
    /\ \A q \in Requests : q < r => px_reqs[q].pc # "idle"

\* The addresses guests send from.
GuestIps == FirstHost .. LastHost

\* The plain HTTP listener accepts a connection from src and reads a request.
HttpAccept(r, src) ==
    /\ PxFree(r)
    /\ px_reqs' = [px_reqs EXCEPT ![r] =
          [NoRequest EXCEPT !.kind = "http", !.pc = "resolve", !.src = src,
                            !.peer = src, !.guest = FindByIp(vm_registry, src)]]
    /\ UNCHANGED <<px_rows, exceptPx>>

\* The TLS MITM accepts a connection from src; when the handshake and the
\* connect to the HTTP proxy succeed, the HTTP proxy's TLS-origin listener
\* accepts the MITM's connection and reads the request from it.
MitmAccept(r, src, ok) ==
    /\ PxFree(r)
    /\ px_reqs' = [px_reqs EXCEPT ![r] =
          IF ok
          THEN [NoRequest EXCEPT !.kind = "https", !.pc = "resolve", !.src = src,
                                 !.peer = Loopback, !.guest = FindByIp(vm_registry, src)]
          ELSE [NoRequest EXCEPT !.kind = "mitm", !.pc = "done", !.src = src,
                                 !.reply = "closed"]]
    /\ UNCHANGED <<px_rows, exceptPx>>

\* The DNS proxy receives a query over UDP (bound: the socket for the
\* upstream could be bound) or reads one from a TCP connection.
DnsAccept(r, kind, src, pkt, bound) ==
    /\ PxFree(r)
    /\ px_reqs' = [px_reqs EXCEPT ![r] =
          IF bound
          THEN [NoRequest EXCEPT !.kind = kind, !.pc = "resolve", !.src = src,
                                 !.peer = src, !.pkt = pkt,
                                 !.guest = FindByIp(vm_registry, src)]
          ELSE [NoRequest EXCEPT !.kind = kind, !.pc = "done", !.src = src,
                                 !.peer = src, !.pkt = pkt,
                                 !.reply = IF kind = "dns_udp" THEN "none" ELSE "closed"]]
    /\ UNCHANGED <<px_rows, exceptPx>>

\* Step 1 of handle_request_inner and of process_dns_query: resolve vm_id.
PxResolve(r) ==
    /\ px_reqs[r].pc = "resolve"
    /\ px_reqs' = [px_reqs EXCEPT ![r].pc = "log",
                                  ![r].vm_id = FindByIp(vm_registry, px_reqs[r].peer)]
    /\ UNCHANGED <<px_rows, exceptPx>>

\* Log the request.
PxLogRequest(r, ok) ==
    /\ px_reqs[r].pc = "log"
    /\ LET res == log_request(px_rows, [req |-> r, vm_id |-> px_reqs[r].vm_id,
                                        responses |-> <<>>], ok) IN
         /\ px_rows' = res.rows
         /\ px_reqs' = [px_reqs EXCEPT ![r].pc = "auth", ![r].request_id = res.id]
    /\ UNCHANGED exceptPx

\* The reply to a denied request.
DeniedReply(q) ==
    IF q.kind \in {"http", "https"} THEN "403"
    ELSE IF build_refused_response(q.pkt) = <<>> THEN "empty"
    ELSE "REFUSED"

\* Authorize; a denied request is answered and its response logged.
PxAuthorize(r, out, dbok) ==
    /\ px_reqs[r].pc = "auth"
    /\ LET q == px_reqs[r]
           allowed == authorize(out) IN
         IF allowed
         THEN /\ px_reqs' = [px_reqs EXCEPT ![r].pc = "forward", ![r].auth = out]
              /\ UNCHANGED px_rows
         ELSE /\ px_reqs' = [px_reqs EXCEPT ![r].pc = "done", ![r].auth = out,
                                            ![r].reply = DeniedReply(q)]
              /\ px_rows' = log_response(px_rows, q.request_id, r, dbok)
    /\ UNCHANGED exceptPx

\* What the upstream step can do: "ok", the request is not sent ("unsent":
\* the URL does not parse, send_to fails), or it is sent and no response
\* comes back ("lost": the upstream request fails, the 5 s timeout expires).
ForwardOutcomes == {"ok", "unsent", "lost"}

\* What the guest gets when the upstream step returns an error: handle_request
\* answers 502; the UDP handler only warns; the TCP handler returns the error
\* and the connection closes.
FailureReply(q) ==
    IF q.kind \in {"http", "https"} THEN "502"
    ELSE IF q.kind = "dns_udp" THEN "none"
    ELSE "closed"

\* Forward an allowed request upstream, log the response, answer the guest.
PxForward(r, out, dbok) ==
    /\ px_reqs[r].pc = "forward"
    /\ LET q == px_reqs[r] IN
         IF out = "ok"
         THEN /\ px_reqs' = [px_reqs EXCEPT ![r].pc = "done", ![r].forwarded = TRUE,
                                            ![r].reply = "upstream"]
              /\ px_rows' = log_response(px_rows, q.request_id, r, dbok)
         ELSE /\ px_reqs' = [px_reqs EXCEPT ![r].pc = "done",
                                            ![r].forwarded = (out = "lost"),
                                            ![r].reply = FailureReply(q)]
              /\ UNCHANGED px_rows
    /\ UNCHANGED exceptPx

\* ------------------------------------------------------------ EventStore
Components == 1 .. MaxComponents
PersistModes == {"All", "Structured", "None"}
\* event_type "log" (EventStore::log) or a typed event (EventStore::emit).
EventTypes == {"log", "typed"}

\* No emit in progress.
NoEvent == [comp |-> 0, n |-> 0, type |-> "none", local_id |-> 0]
\* The Close message of close_session.
CloseMsg == [comp |-> 0, n |-> 0, type |-> "close", local_id |-> 0]

\* Variant of should_persist that selects every event type in every mode but
\* None.
should_persist_no_filter(mode, type) == mode # "None"

\* emit_inner: should_persist.
should_persist(mode, type) ==
    IF mode = "All" THEN TRUE
    ELSE IF mode = "Structured" THEN type # "log"
    ELSE FALSE

RECURSIVE Reverse(_)
Reverse(q) == IF q = <<>> THEN <<>> ELSE Append(Reverse(Tail(q)), Head(q))

\* Variant of flush_batch_inner that inserts the batch last record first.
flush_batch_inner_reversed(table, batch, flushes, ok) ==
    IF ok THEN table \o [i \in DOMAIN batch |->
                           [ev |-> Reverse(batch)[i], batch |-> flushes + 1]]
    ELSE table

\* flush_batch_inner: insert the records of the batch in order and commit; an
\* error drops the transaction and no record of the batch is inserted.
flush_batch_inner(table, batch, flushes, ok) ==
    IF ok THEN table \o [i \in DOMAIN batch |-> [ev |-> batch[i], batch |-> flushes + 1]]
    ELSE table

\* EventStore::new: the store is opened with a persist mode and the background
\* writer is spawned.
EventStoreNew(mode) ==
    /\ ev_writer = "unborn"
    /\ ev_mode' = mode
    /\ ev_writer' = "recv"
    /\ UNCHANGED <<ev_next_id, ev_pending, ev_count, ev_chan, ev_batch, ev_table, ev_sent,
                   ev_flushes, ev_closing, ev_stopped_at, ev_acked,
                   ev_failed, ev_before_close, ev_emitted, exceptEv>>

\* emit_inner, first half: component k starts its next emit and takes a local id.
EmitBegin(k, type) ==
    /\ ev_writer # "unborn"
    /\ ev_pending[k] = NoEvent
    /\ ev_count[k] < MaxEmits
    /\ ev_count' = [ev_count EXCEPT ![k] = @ + 1]
    /\ ev_next_id' = ev_next_id + 1
    /\ ev_pending' = [ev_pending EXCEPT ![k] =
          [comp |-> k, n |-> ev_count[k] + 1, type |-> type, local_id |-> ev_next_id]]
    /\ UNCHANGED <<ev_mode, ev_chan, ev_writer, ev_batch, ev_table, ev_sent, ev_flushes,
                   ev_closing, ev_stopped_at, ev_acked,
                   ev_failed, ev_before_close, ev_emitted, exceptEv>>

\* emit_inner, second half: the record is sent to the writer when the persist
\* mode asks for it; the send fails when the writer has returned.
EmitSend(k) ==
    /\ ev_pending[k] # NoEvent
    /\ ev_pending' = [ev_pending EXCEPT ![k] = NoEvent]
    /\ IF should_persist(ev_mode, ev_pending[k].type) /\ ev_writer # "stopped"
       THEN /\ ev_chan' = Append(ev_chan, ev_pending[k])
            /\ ev_sent' = Append(ev_sent, ev_pending[k])
       ELSE UNCHANGED <<ev_chan, ev_sent>>
    /\ ev_emitted' = ev_emitted \cup {[ev |-> ev_pending[k], open |-> ev_writer # "stopped"]}
    /\ UNCHANGED <<ev_mode, ev_next_id, ev_count, ev_writer, ev_batch, ev_table, ev_flushes,
                   ev_closing, ev_stopped_at, ev_acked,
                   ev_failed, ev_before_close, exceptEv>>

\* close_session: send Close to the writer.
CloseSession ==
    /\ ev_writer # "unborn"
    /\ ~ev_closing
    /\ ev_closing' = TRUE
    /\ ev_chan' = IF ev_writer # "stopped" THEN Append(ev_chan, CloseMsg) ELSE ev_chan
    /\ ev_before_close' = {ev_sent[p] : p \in DOMAIN ev_sent}
    /\ UNCHANGED <<ev_mode, ev_next_id, ev_pending, ev_count, ev_writer, ev_batch, ev_table,
                   ev_sent, ev_flushes, ev_stopped_at, ev_acked, ev_failed, ev_emitted,
                   exceptEv>>

\* flush_batch: nothing to do for an empty batch; the batch is cleared whether
\* or not the transaction committed.
FlushBatch(ok) ==
    /\ ev_table' = IF ev_batch = <<>> THEN ev_table
                   ELSE flush_batch_inner(ev_table, ev_batch, ev_flushes, ok)
    /\ ev_flushes' = IF ev_batch # <<>> /\ ok THEN ev_flushes + 1 ELSE ev_flushes
    /\ ev_failed' = IF ok THEN ev_failed
                    ELSE ev_failed \cup {ev_batch[i] : i \in DOMAIN ev_batch}
    /\ ev_batch' = <<>>

\* close_session_row: UPDATE sessions SET stopped_at; an error is printed and
\* the column stays NULL.
close_session_row(rowok) == IF rowok THEN "set" ELSE "failed"

\* Variant of WriterFinish that answers the oneshot without flushing the
\* batch or closing the session row.
WriterFinish_ack_only(ok, rowok, ack) ==
    /\ ev_acked' = (ev_acked \/ ack)
    /\ UNCHANGED <<ev_table, ev_flushes, ev_failed, ev_batch, ev_stopped_at>>

\* The end of background_writer: flush_batch, close_session_row,
\* checkpoint_wal (no state of its own here), then resp.send(()) when the end
\* was asked for by a Close message.
WriterFinish(ok, rowok, ack) ==
    /\ FlushBatch(ok)
    /\ ev_stopped_at' = close_session_row(rowok)
    /\ ev_acked' = (ev_acked \/ ack)

\* background_writer: rx.recv() returns a message.
WriterRecv ==
    /\ ev_writer = "recv"
    /\ ev_chan # <<>>
    /\ ev_chan' = Tail(ev_chan)
    /\ IF Head(ev_chan) = CloseMsg
       THEN /\ ev_writer' = "closing"
            /\ UNCHANGED ev_batch
       ELSE /\ ev_writer' = "drain"
            /\ ev_batch' = Append(ev_batch, Head(ev_chan))
    /\ UNCHANGED <<ev_mode, ev_next_id, ev_pending, ev_count, ev_table, ev_sent, ev_flushes,
                   ev_closing, ev_stopped_at, ev_acked,
                   ev_failed, ev_before_close, ev_emitted, exceptEv>>

\* background_writer: rx.recv() returns None, every handle of the store having
\* been dropped when its users were done: flush and return.
WriterChannelClosed(ok, rowok) ==
    /\ ev_writer = "recv"
    /\ ev_chan = <<>>
    /\ ~ev_closing
    /\ \A k \in Components : ev_pending[k] = NoEvent /\ ev_count[k] = MaxEmits
    /\ WriterFinish(ok, rowok, FALSE)
    /\ ev_writer' = "stopped"
    /\ ev_closing' = TRUE
    /\ UNCHANGED <<ev_mode, ev_next_id, ev_pending, ev_count, ev_chan, ev_sent,
                   ev_before_close, ev_emitted, exceptEv>>

\* background_writer after a Close was received: drain the channel with
\* try_recv, then flush, close the session row and return.
WriterClosing(ok, rowok) ==
    /\ ev_writer = "closing"
    /\ IF ev_chan # <<>>
       THEN /\ ev_chan' = Tail(ev_chan)
            /\ ev_batch' = IF Head(ev_chan) = CloseMsg THEN ev_batch
                           ELSE Append(ev_batch, Head(ev_chan))
            /\ UNCHANGED <<ev_writer, ev_table, ev_flushes, ev_failed, ev_stopped_at,
                           ev_acked>>
       ELSE /\ WriterFinish(ok, rowok, TRUE)
            /\ ev_writer' = "stopped"
            /\ UNCHANGED ev_chan
    /\ UNCHANGED <<ev_mode, ev_next_id, ev_pending, ev_count, ev_sent, ev_closing,
                   ev_before_close, ev_emitted, exceptEv>>

\* background_writer, the non-blocking drain after the first message: take
\* what is waiting; flush and return on Close; flush the batch when the
\* channel is empty and wait again.
WriterDrain(ok, rowok) ==
    /\ ev_writer = "drain"
    /\ IF ev_chan = <<>>
       THEN /\ FlushBatch(ok)
            /\ ev_writer' = "recv"
            /\ UNCHANGED <<ev_chan, ev_stopped_at, ev_acked>>
       ELSE IF Head(ev_chan) = CloseMsg
       THEN /\ WriterFinish(ok, rowok, TRUE)
            /\ ev_writer' = "stopped"
            /\ ev_chan' = Tail(ev_chan)
       ELSE /\ ev_batch' = Append(ev_batch, Head(ev_chan))
            /\ ev_chan' = Tail(ev_chan)
            /\ UNCHANGED <<ev_writer, ev_table, ev_flushes, ev_failed, ev_stopped_at,
                           ev_acked>>
    /\ UNCHANGED <<ev_mode, ev_next_id, ev_pending, ev_count, ev_sent, ev_closing,
                   ev_before_close, ev_emitted, exceptEv>>

\* ------------------------------------------------------------- VmRegistry
\* VmRegistry::insert fails when the id is present.
RegistryInsert(reg, id, entry) ==
    IF id \in DOMAIN reg
    THEN [ok |-> FALSE, reg |-> reg]
    ELSE [ok |-> TRUE,
          reg |-> [v \in (DOMAIN reg) \cup {id} |-> IF v = id THEN entry ELSE reg[v]]]

\* Variant of remove that returns the entry and leaves it in the map.
RegistryRemove_keep(reg, id) ==
    IF id \in DOMAIN reg
    THEN [ok |-> TRUE, reg |-> reg]
    ELSE [ok |-> FALSE, reg |-> reg]

\* VmRegistry::remove fails when the id is absent.
RegistryRemove(reg, id) ==
    IF id \in DOMAIN reg
    THEN [ok |-> TRUE, reg |-> [v \in (DOMAIN reg) \ {id} |-> reg[v]]]
    ELSE [ok |-> FALSE, reg |-> reg]

\* Variant of list that skips one entry of the map (the one with the least id).
RegistryList_skip_first(reg) ==
    {<<v, reg[v].ip>> : v \in {w \in DOMAIN reg : \E u \in DOMAIN reg : u < w}}

\* VmRegistry::list: the snapshot of (id, ip) tuples (the TAP name follows
\* from the id).
RegistryList(reg) == {<<v, reg[v].ip>> : v \in DOMAIN reg}

\* VmRegistry::get_vsock_path succeeds when the id is present.
RegistryGetVsockPath(reg, id) == id \in DOMAIN reg

\* ---------------------------------------------------------- host network
\* The bridge-wide DROP rule of the FORWARD chain and a per-TAP pin.
BridgeDrop == [kind |-> "drop", tap |-> 0, ip |-> NoIp]
PinRule(tap, ip) == [kind |-> "pin", tap |-> tap, ip |-> ip]

RECURSIVE RemoveFirst(_, _)
\* iptables -D: delete the first rule of the chain equal to rule.
RemoveFirst(chain, rule) ==
    IF chain = <<>> THEN <<>>
    ELSE IF Head(chain) = rule THEN Tail(chain)
    ELSE <<Head(chain)>> \o RemoveFirst(Tail(chain), rule)

\* Number of copies of rule in the chain.
CountRule(chain, rule) == Cardinality({i \in DOMAIN chain : chain[i] = rule})

\* Steps at which NetworkManager::create_tap can fail: "tun" before the
\* device exists (open, TUNSETIFF, TUNSETPERSIST), then bring_up, the attach
\* to the bridge, the pin.
CreateTapOutcomes == {"ok", "tun", "bring_up", "attach", "pin"}

\* NetworkManager::create_tap: every step returns early with `?`.
NetCreateTap(tp, fw, tap, ip, out) ==
    IF out = "tun" THEN [ok |-> FALSE, taps |-> tp, forward |-> fw]
    ELSE IF out \in {"bring_up", "attach", "pin"}
    THEN [ok |-> FALSE, taps |-> tp \cup {tap}, forward |-> fw]
    ELSE [ok |-> TRUE, taps |-> tp \cup {tap},
          forward |-> Append(fw, PinRule(tap, ip))]

\* Steps of NetworkManager::delete_tap that can fail.
DeleteTapOutcomes == {"ok", "pin", "tap", "both"}

\* NetworkManager::delete_tap: the pin removal is best effort, the deletion
\* of an existing device is returned.
NetDeleteTap(tp, fw, tap, ip, out) ==
    LET fw1 == IF out \in {"pin", "both"} THEN fw ELSE RemoveFirst(fw, PinRule(tap, ip))
    IN IF tap \in tp /\ out \in {"tap", "both"}
       THEN [ok |-> FALSE, taps |-> tp, forward |-> fw1]
       ELSE [ok |-> TRUE, taps |-> tp \ {tap}, forward |-> fw1]

\* The redirect rules of the nat table's PREROUTING chain, in the order
\* ensure_bridge installs them: tcp 80, tcp 443, udp 53, tcp 53.
NatRules == <<"tcp80", "tcp443", "udp53", "tcp53">>

\* iptables -A: append without looking.
run_iptables_append(chain, rule) == Append(chain, rule)

\* Variant of ensure_iptables_rule that appends without looking for the rule.
ensure_iptables_rule_no_check(chain, rule) == Append(chain, rule)

\* ensure_iptables_rule: -C, then -A when the rule is absent.
ensure_iptables_rule(chain, rule) ==
    IF \E i \in DOMAIN chain : chain[i] = rule THEN chain ELSE Append(chain, rule)

\* The first n of the five bridge rules put in their chains, in order: the
\* four redirects in PREROUTING, then the bridge-wide DROP in FORWARD; with
\* ensure_iptables_rule (ensure_*) or with a plain append (add_*).
InstallRules(nt, fw, n, ensure) ==
    LET put(chain, rule) == IF ensure THEN ensure_iptables_rule(chain, rule)
                            ELSE run_iptables_append(chain, rule)
        natAfter[k \in 0 .. Len(NatRules)] ==
            IF k = 0 THEN nt ELSE put(natAfter[k - 1], NatRules[k])
    IN IF n <= Len(NatRules)
       THEN [nat |-> natAfter[n], forward |-> fw]
       ELSE [nat |-> natAfter[Len(NatRules)], forward |-> put(fw, BridgeDrop)]

\* Where ensure_bridge can fail: in create_bridge at the link add, between
\* the link add and the rules (index, address, up, ip_forward), at the k-th
\* rule added; then at enable_ip_forwarding, at the k-th rule ensured.
EnsureOutcomes ==
    {[at |-> a, k |-> 0] : a \in {"ok", "link_add", "setup", "ip_forward"}}
        \cup {[at |-> a, k |-> k] : a \in {"add", "ensure"}, k \in 1 .. Len(NatRules) + 1}

\* bridge::ensure_bridge: create_bridge when the device is missing, then the
\* rules are ensured whether or not it was.
ensure_bridge(br, nt, fw, out) ==
    LET all == Len(NatRules) + 1
        made == IF br THEN [nat |-> nt, forward |-> fw]
                ELSE InstallRules(nt, fw, all, FALSE)
    IN IF ~br /\ out.at = "link_add"
       THEN [ok |-> FALSE, bridge |-> FALSE, nat |-> nt, forward |-> fw]
       ELSE IF ~br /\ out.at = "setup"
       THEN [ok |-> FALSE, bridge |-> TRUE, nat |-> nt, forward |-> fw]
       ELSE IF ~br /\ out.at = "add"
       THEN LET part == InstallRules(nt, fw, out.k - 1, FALSE)
            IN [ok |-> FALSE, bridge |-> TRUE, nat |-> part.nat, forward |-> part.forward]
       ELSE IF out.at = "ip_forward"
       THEN [ok |-> FALSE, bridge |-> TRUE, nat |-> made.nat, forward |-> made.forward]
       ELSE IF out.at = "ensure"
       THEN LET part == InstallRules(made.nat, made.forward, out.k - 1, TRUE)
            IN [ok |-> FALSE, bridge |-> TRUE, nat |-> part.nat, forward |-> part.forward]
       ELSE LET done == InstallRules(made.nat, made.forward, all, TRUE)
            IN [ok |-> TRUE, bridge |-> TRUE, nat |-> done.nat, forward |-> done.forward]

\* NetworkManager::ensure_bridge called directly; the outcomes of
\* create_bridge need the device to be missing.
EnsureBridge(out) ==
    /\ Len(net_hist) < MaxNetCalls
    /\ out.at \in {"link_add", "setup", "add"} => ~bridge
    /\ LET res == ensure_bridge(bridge, nat, forward, out)
       IN /\ bridge' = res.bridge
          /\ nat' = res.nat
          /\ forward' = res.forward
          /\ net_hist' = Append(net_hist, [op |-> "ensure_bridge", ok |-> res.ok, tap |-> 0])
    /\ UNCHANGED <<taps, exceptNet>>

\* NetworkManager::create_tap called directly; the attach needs the bridge.
NetCreateTapCall(tap, ip, out) ==
    /\ Len(net_hist) < MaxNetCalls
    /\ out \in {"ok", "pin"} => bridge
    /\ LET res == NetCreateTap(taps, forward, tap, ip, out)
       IN /\ taps' = res.taps
          /\ forward' = res.forward
          /\ net_hist' = Append(net_hist, [op |-> "create_tap", ok |-> res.ok, tap |-> tap])
    /\ UNCHANGED <<bridge, nat, exceptNet>>

\* NetworkManager::delete_tap called directly.
NetDeleteTapCall(tap, ip, out) ==
    /\ Len(net_hist) < MaxNetCalls
    /\ LET res == NetDeleteTap(taps, forward, tap, ip, out)
       IN /\ taps' = res.taps
          /\ forward' = res.forward
          /\ net_hist' = Append(net_hist, [op |-> "delete_tap", ok |-> res.ok, tap |-> tap])
    /\ UNCHANGED <<bridge, nat, exceptNet>>

\* ------------------------------------------------------------ RPC service
Calls == 1 .. MaxCalls
VmIds == 1 .. MaxVms
\* A vm_id string that Uuid::parse_str rejects.
Malformed == 0
IdStrings == VmIds \cup {Malformed}

\* Variant of ParseUuid that accepts every string.
ParseUuid_accept_all(s) == [ok |-> TRUE, id |-> s]

\* Uuid::parse_str
ParseUuid(s) == [ok |-> s # Malformed, id |-> s]

\* The teardown counts of an id no teardown has touched, and a count raised
\* by one (counts stop at MaxTeardowns).
NoTeardown == [removes |-> 0, stops |-> 0, releases |-> 0]
Counted(n) == IF n < MaxTeardowns THEN n + 1 ELSE n

\* A call slot with no call in it.
NoCall == [op |-> "none", pc |-> "idle", id |-> 0, ip |-> NoIp, mgr |-> NewManager,
           steps |-> <<>>, warned |-> FALSE, late |-> FALSE]

\* The response of a call: result, and for the properties the steps the call ran,
\* whether one of them failed, the ids list_vms returned, and whether an
\* exec_vm started after a delete_vm of its id had returned.
NoResponse == [op |-> "none", id |-> 0, ip |-> NoIp, result |-> "none",
               steps |-> <<>>, warned |-> FALSE, listed |-> {}, late |-> FALSE]
Response(op, id, ip, result) ==
    [NoResponse EXCEPT !.op = op, !.id = id, !.ip = ip, !.result = result]

\* No response is waiting to be handed to the transport.
Quiet == last = NoResponse

\* The call in slot c is op at step pc.
At(c, op, pc) == Quiet /\ calls[c].op = op /\ calls[c].pc = pc

\* The server accepts a call while the shutdown future has not completed; a
\* new call takes the first free slot.
Accepting(c) ==
    /\ Quiet
    /\ sd.pc # "done"
    /\ calls[c].pc = "idle"
    /\ \A d \in Calls : d < c => calls[d].pc # "idle"

\* The call in slot c returns resp and its slot is free again.
Returns(c, resp) ==
    /\ calls' = [calls EXCEPT ![c] = NoCall]
    /\ last' = resp

\* The call in slot c goes on as cl.
Continues(c, cl) ==
    /\ calls' = [calls EXCEPT ![c] = cl]
    /\ UNCHANGED last

\* The response just returned is handed to the transport; this happens before
\* any other task runs, so a response is visible in exactly one state.
Deliver ==
    /\ ~Quiet
    /\ last' = NoResponse
    /\ UNCHANGED <<vm_registry, allocVars, netVars, hostVars, next_id, calls, sd,
                   histVars, unitVars, aHist>>

\* create_vm up to the IP allocation.
CreateBegin(c) ==
    /\ Accepting(c)
    /\ next_id < MaxVms
    /\ next_id' = next_id + 1
    /\ LET id == next_id + 1
           r  == allocate(allocated, next_index)
       IN /\ allocated'  = r.allocated
          /\ next_index' = r.next_index
          /\ IF r.ok
             THEN Continues(c, [NoCall EXCEPT !.op = "create", !.pc = "tap",
                                              !.id = id, !.ip = r.ip])
             ELSE Returns(c, Response("create", id, NoIp, "resource_exhausted"))
    /\ UNCHANGED <<vm_registry, netVars, hostVars, sd, histVars, unitVars, aHist>>

\* create_vm: create_tap, and on its failure the release of the address.
CreateTap(c) ==
    /\ At(c, "create", "tap")
    /\ \E out \in CreateTapOutcomes :
         LET cl == calls[c]
             r  == NetCreateTap(taps, forward, cl.id, cl.ip, out)
         IN /\ taps' = r.taps
            /\ forward' = r.forward
            /\ IF r.ok
               THEN /\ Continues(c, [cl EXCEPT !.pc = "start"])
                    /\ UNCHANGED allocated
               ELSE /\ allocated' = release(allocated, cl.ip).allocated
                    /\ Returns(c, Response("create", cl.id, cl.ip, "internal"))
    /\ UNCHANGED <<vm_registry, next_index, hostVars, next_id, sd, created, removed,
                   deleted, torn, unitVars, aHist>>

\* create_vm: VmManager::start, and on its failure delete_tap, the release of
\* the address and the drop of the manager.
CreateStart(c) ==
    /\ At(c, "create", "start")
    /\ \E out \in StartOutcomes, dout \in DeleteTapOutcomes :
         LET cl == calls[c]
             r  == ManagerStart(NewManager, out)
             d  == NetDeleteTap(taps, forward, cl.id, cl.ip, dout)
         IN IF r.ok
            THEN /\ dout = "ok"
                 /\ children' = children \cup {cl.id}
                 /\ vsocks' = vsocks \cup {cl.id}
                 /\ Continues(c, [cl EXCEPT !.pc = "register", !.mgr = r.m])
                 /\ UNCHANGED <<netVars, allocated>>
            ELSE /\ taps' = d.taps
                 /\ forward' = d.forward
                 /\ allocated' = release(allocated, cl.ip).allocated
                 /\ children' = IF ManagerDrop(r.m).child
                                THEN children \cup {cl.id} ELSE children \ {cl.id}
                 /\ Returns(c, Response("create", cl.id, cl.ip, "internal"))
                 /\ UNCHANGED vsocks
    /\ UNCHANGED <<vm_registry, next_index, next_id, sd, created, removed, deleted, torn,
                   unitVars, aHist>>

\* create_vm: the wait for the guest agent (not fatal) and the registry insert.
CreateRegister(c) ==
    /\ At(c, "create", "register")
    /\ LET cl == calls[c]
           entry == [ip |-> cl.ip, mgr |-> cl.mgr]
           r == RegistryInsert(vm_registry, cl.id, entry)
       IN /\ vm_registry' = r.reg
          /\ IF r.ok
             THEN /\ Returns(c, Response("create", cl.id, cl.ip, "ok"))
                  /\ created' = [created EXCEPT ![cl.id] = @ + 1]
                  /\ UNCHANGED children
             ELSE /\ Returns(c, Response("create", cl.id, cl.ip, "internal"))
                  /\ children' = IF ManagerDrop(cl.mgr).child
                                 THEN children ELSE children \ {cl.id}
                   /\ UNCHANGED created
    /\ UNCHANGED <<allocVars, netVars, vsocks, next_id, sd, removed, deleted, torn, unitVars, aHist>>

\* delete_vm up to the removal from the registry.
DeleteBegin(c, s) ==
    /\ Accepting(c)
    /\ LET p == ParseUuid(s)
           r == RegistryRemove(vm_registry, p.id)
       IN IF ~p.ok
          THEN /\ Returns(c, Response("delete", s, NoIp, "invalid_argument"))
               /\ UNCHANGED <<vm_registry, removed, torn>>
          ELSE IF ~r.ok
          THEN /\ Returns(c, Response("delete", p.id, NoIp, "not_found"))
               /\ UNCHANGED <<vm_registry, removed, torn>>
          ELSE /\ vm_registry' = r.reg
               /\ removed' = removed \cup {p.id}
               /\ torn' = [torn EXCEPT ![p.id].removes = Counted(@)]
               /\ Continues(c, [NoCall EXCEPT !.op = "delete", !.pc = "stop", !.id = p.id,
                                              !.ip = vm_registry[p.id].ip,
                                              !.mgr = vm_registry[p.id].mgr,
                                              !.steps = <<"registry">>])
    /\ UNCHANGED <<allocVars, netVars, hostVars, next_id, sd, created, deleted,
                   unitVars, aHist>>

\* Variant of the stop step of delete_vm that returns the error when a step
\* of stop warned.
DeleteStop_propagate(c) ==
    /\ At(c, "delete", "stop")
    /\ \E out \in StopOutcomes :
         LET cl == calls[c]
             r  == ManagerStop(cl.mgr, out)
         IN /\ children' = children \ {cl.id}
            /\ torn' = [torn EXCEPT ![cl.id].stops = Counted(@)]
            /\ IF r.warned
               THEN Returns(c, [Response("delete", cl.id, cl.ip, "internal")
                                  EXCEPT !.steps = Append(cl.steps, "stop"),
                                         !.warned = TRUE])
               ELSE Continues(c, [cl EXCEPT !.pc = "tap", !.mgr = r.m,
                                            !.steps = Append(cl.steps, "stop")])
    /\ UNCHANGED <<vm_registry, allocVars, netVars, vsocks, next_id, sd, created, removed, deleted,
                   unitVars, aHist>>

\* delete_vm: VmManager::stop; an error is logged.
DeleteStop(c) ==
    /\ At(c, "delete", "stop")
    /\ \E out \in StopOutcomes :
         LET cl == calls[c]
             r  == ManagerStop(cl.mgr, out)
         IN /\ children' = children \ {cl.id}
            /\ torn' = [torn EXCEPT ![cl.id].stops = Counted(@)]
            /\ Continues(c, [cl EXCEPT !.pc = "tap", !.mgr = r.m,
                                       !.steps = Append(cl.steps, "stop"),
                                       !.warned = (cl.warned \/ r.warned \/ ~r.ok)])
    /\ UNCHANGED <<vm_registry, allocVars, netVars, vsocks, next_id, sd, created, removed, deleted,
                   unitVars, aHist>>

\* delete_vm: delete_tap; an error is logged.
DeleteTap(c) ==
    /\ At(c, "delete", "tap")
    /\ \E out \in DeleteTapOutcomes :
         LET cl == calls[c]
             r  == NetDeleteTap(taps, forward, cl.id, cl.ip, out)
         IN /\ taps' = r.taps
            /\ forward' = r.forward
            /\ Continues(c, [cl EXCEPT !.pc = "release",
                                       !.steps = Append(cl.steps, "tap"),
                                       !.warned = (cl.warned \/ out # "ok")])
    /\ UNCHANGED <<vm_registry, allocVars, hostVars, next_id, sd, histVars,
                   unitVars, aHist>>

\* delete_vm: the release of the address, the unlink of the guest socket file
\* (its result is discarded) and the successful return.
DeleteRelease(c) ==
    /\ At(c, "delete", "release")
    /\ LET cl == calls[c]
           r  == release(allocated, cl.ip)
       IN /\ allocated' = r.allocated
          /\ vsocks' = vsocks \ {cl.id}
          /\ deleted' = deleted \cup {cl.id}
          /\ torn' = [torn EXCEPT ![cl.id].releases = Counted(@)]
          /\ Returns(c, [Response("delete", cl.id, cl.ip, "ok")
                           EXCEPT !.steps = cl.steps \o <<"release", "unlink">>,
                                  !.warned = (cl.warned \/ ~r.ok)])
    /\ UNCHANGED <<vm_registry, next_index, netVars, children, next_id, sd,
                   created, removed, unitVars, aHist>>

\* list_vms: one entry per tuple of the registry snapshot.
ListVms(c) ==
    /\ Accepting(c)
    /\ Returns(c, [Response("list", 0, NoIp, "ok")
                     EXCEPT !.listed = {t[1] : t \in RegistryList(vm_registry)}])
    /\ UNCHANGED <<vm_registry, allocVars, netVars, hostVars, next_id, sd, histVars,
                   unitVars, aHist>>

\* exec_vm up to the lookup of the guest socket path.
ExecBegin(c, s) ==
    /\ Accepting(c)
    /\ LET p == ParseUuid(s) IN
       IF ~p.ok THEN Returns(c, Response("exec", s, NoIp, "invalid_argument"))
       ELSE IF ~RegistryGetVsockPath(vm_registry, p.id)
       THEN Returns(c, [Response("exec", p.id, NoIp, "not_found")
                          EXCEPT !.late = (p.id \in deleted)])
       ELSE Continues(c, [NoCall EXCEPT !.op = "exec", !.pc = "agent", !.id = p.id,
                                        !.late = (p.id \in deleted)])
    /\ UNCHANGED <<vm_registry, allocVars, netVars, hostVars, next_id, sd, histVars,
                   unitVars, aHist>>

\* exec_vm: the connection to the agent and the command.
ExecAgent(c) ==
    /\ At(c, "exec", "agent")
    /\ \E res \in {"ok", "unavailable", "internal"} :
         Returns(c, [Response("exec", calls[c].id, NoIp, res)
                       EXCEPT !.late = calls[c].late])
    /\ UNCHANGED <<vm_registry, allocVars, netVars, hostVars, next_id, sd, histVars,
                   unitVars, aHist>>

\* ---------------------------------------------------------------- shutdown
\* The shutdown task before the signal.
SdIdle == [pc |-> "idle", todo |-> {}, id |-> 0, ip |-> NoIp, mgr |-> NewManager,
           log |-> <<>>]

\* The steps the shutdown cleanup has run for VM v.
SdSteps(v) == IF v \in DOMAIN sd.log THEN sd.log[v] ELSE <<>>

\* The log with step appended to the steps of VM v.
SdLogged(v, step) ==
    [w \in (DOMAIN sd.log) \cup {v} |-> IF w = v THEN Append(SdSteps(v), step) ELSE sd.log[w]]

\* shutdown_signal: the signal arrives and the registry snapshot is taken.
ShutdownSignal ==
    /\ Quiet /\ sd.pc = "idle"
    /\ sd' = [sd EXCEPT !.pc = "loop", !.todo = RegistryList(vm_registry)]
    /\ UNCHANGED <<vm_registry, allocVars, netVars, hostVars, next_id, calls, last, histVars,
                   unitVars, aHist>>

\* shutdown_signal: the next tuple of the snapshot is removed from the
\* registry; a VM that is no longer there is skipped.
ShutdownRemove ==
    /\ Quiet /\ sd.pc = "loop"
    /\ \E t \in sd.todo :
         LET r == RegistryRemove(vm_registry, t[1]) IN
         /\ vm_registry' = r.reg
         /\ IF r.ok
            THEN /\ removed' = removed \cup {t[1]}
                 /\ torn' = [torn EXCEPT ![t[1]].removes = Counted(@)]
                 /\ sd' = [sd EXCEPT !.pc = "stop", !.todo = sd.todo \ {t},
                                     !.id = t[1], !.ip = t[2],
                                     !.mgr = vm_registry[t[1]].mgr,
                                     !.log = SdLogged(t[1], "registry")]
            ELSE /\ sd' = [sd EXCEPT !.todo = sd.todo \ {t}]
                 /\ UNCHANGED <<removed, torn>>
    /\ UNCHANGED <<allocVars, netVars, hostVars, next_id, calls, last, created, deleted,
                   unitVars, aHist>>

\* shutdown_signal: VmManager::stop of the current VM; an error is logged.
ShutdownStop ==
    /\ Quiet /\ sd.pc = "stop"
    /\ \E out \in StopOutcomes :
         LET r == ManagerStop(sd.mgr, out) IN
         /\ children' = children \ {sd.id}
         /\ torn' = [torn EXCEPT ![sd.id].stops = Counted(@)]
         /\ sd' = [sd EXCEPT !.pc = "tap", !.mgr = r.m, !.log = SdLogged(sd.id, "stop")]
    /\ UNCHANGED <<vm_registry, allocVars, netVars, vsocks, next_id, calls, last, created, removed,
                   deleted,
                   unitVars, aHist>>

\* shutdown_signal: delete_tap of the current VM; an error is logged.
ShutdownTap ==
    /\ Quiet /\ sd.pc = "tap"
    /\ \E out \in DeleteTapOutcomes :
         LET r == NetDeleteTap(taps, forward, sd.id, sd.ip, out) IN
         /\ taps' = r.taps
         /\ forward' = r.forward
         /\ sd' = [sd EXCEPT !.pc = "release", !.log = SdLogged(sd.id, "tap")]
    /\ UNCHANGED <<vm_registry, allocVars, hostVars, next_id, calls, last, histVars,
                   unitVars, aHist>>

\* shutdown_signal: the release of the address of the current VM; the entry is
\* dropped and the loop goes on.
ShutdownRelease ==
    /\ Quiet /\ sd.pc = "release"
    /\ allocated' = release(allocated, sd.ip).allocated
    /\ torn' = [torn EXCEPT ![sd.id].releases = Counted(@)]
    /\ sd' = [sd EXCEPT !.pc = "loop", !.id = 0, !.ip = NoIp, !.mgr = NewManager,
                        !.log = SdLogged(sd.id, "release")]
    /\ UNCHANGED <<vm_registry, next_index, netVars, hostVars, next_id, calls, last, created, removed,
                   deleted,
                   unitVars, aHist>>

\* shutdown_signal: after the loop the proxy rules are removed (best effort)
\* and the future completes, so the server stops accepting calls.
ShutdownFinish ==
    /\ Quiet /\ sd.pc = "loop" /\ sd.todo = {}
    /\ \E ok \in BOOLEAN :
         forward' = IF ok THEN RemoveFirst(forward, BridgeDrop) ELSE forward
    /\ sd' = [sd EXCEPT !.pc = "done"]
    /\ UNCHANGED <<vm_registry, allocVars, taps, hostVars, next_id, calls, last, histVars,
                   unitVars, aHist>>

\* ------------------------------------------------------------------ Init
Init ==
    /\ lc_state = "NotStarted"
    /\ lc_old = "NotStarted"
    /\ lc_new = "NotStarted"
    /\ lc_ok = TRUE
    /\ lc_calls = 0
    /\ allocated = [i \in Slots |-> FALSE]
    /\ next_index = 0
    /\ a_live = {}
    /\ a_last = [op |-> "none", ok |-> TRUE, ip |-> NoIp, again |-> FALSE]
    /\ a_calls = 0
    /\ a_ever = {}
    /\ a_swept = [ip \in FirstHost .. LastHost |-> {}]
    /\ a_freed = [ip \in FirstHost .. LastHost |-> -1]
    /\ vm_registry = <<>>
    /\ taps = {}
    /\ forward = <<BridgeDrop>>
    /\ children = {}
    /\ vsocks = {}
    /\ next_id = 0
    /\ calls = [c \in Calls |-> NoCall]
    /\ last = NoResponse
    /\ sd = SdIdle
    /\ created = [v \in VmIds |-> 0]
    /\ removed = {}
    /\ deleted = {}
    /\ mgr = NewManager
    /\ mgr_last = NoMgrCall
    /\ mgr_calls = 0
    /\ dns_query = <<>>
    /\ dns_resp = <<>>
    /\ px_reqs = [r \in Requests |-> NoRequest]
    /\ px_rows = <<>>
    /\ ev_mode = "unset"
    /\ ev_next_id = 1
    /\ ev_pending = [k \in Components |-> NoEvent]
    /\ ev_count = [k \in Components |-> 0]
    /\ ev_chan = <<>>
    /\ ev_writer = "unborn"
    /\ ev_batch = <<>>
    /\ ev_table = <<>>
    /\ ev_sent = <<>>
    /\ ev_flushes = 0
    /\ ev_closing = FALSE
    /\ ev_stopped_at = "null"
    /\ ev_acked = FALSE
    /\ ev_failed = {}
    /\ ev_before_close = {}
    /\ ev_emitted = {}
    /\ bridge = TRUE
    /\ nat = NatRules
    /\ net_hist = <<>>
    /\ pr_req = NoParams
    /\ pr_entry = NoParams
    /\ pr_listed = NoParams
    /\ bs_reqs = [r \in BodyRequests |-> NoBodyRequest]
    /\ bs_rows = <<>>
    /\ bs_files = [f \in 0 .. MaxBodyRequests |-> 0]
    /\ ca_cache = [d \in CertDomains |-> 0]
    /\ ca_lock = 0
    /\ ca_tasks = [t \in CertTasks |-> NoCertTask]
    /\ ca_minted = <<>>
    /\ ca_returned = {}
    /\ torn = [v \in VmIds |-> NoTeardown]

\* ------------------------------------------------- lifecycle specification
NextLifecycle == \E new \in VmState : LcTransition(new)

SpecLifecycle == Init /\ [][NextLifecycle]_vars

\* --------------------------------------------------- manager specification
NextManager ==
    \/ \E out \in StartOutcomes : MgrStart(out)
    \/ \E out \in StopOutcomes : MgrStop(out)
    \/ MgrRenew

SpecManager == Init /\ [][NextManager]_vars

\* ------------------------------------------- DNS REFUSED specification
NextDns == \E q \in DnsPackets : DnsRefuse(q)

SpecDns == Init /\ [][NextDns]_vars

\* ----------------------------------------------------- proxy specification
\* The server after its first create_vm has returned success: one VM, with the
\* first address of the pool, is in the registry (a state Spec reaches).
InitProxy ==
    /\ lc_state = "NotStarted"
    /\ lc_old = "NotStarted"
    /\ lc_new = "NotStarted"
    /\ lc_ok = TRUE
    /\ lc_calls = 0
    /\ allocated = [i \in Slots |-> i = 0]
    /\ next_index = 1 % PoolSize
    /\ a_live = {}
    /\ a_last = [op |-> "none", ok |-> TRUE, ip |-> NoIp, again |-> FALSE]
    /\ a_calls = 0
    /\ a_ever = {}
    /\ a_swept = [ip \in FirstHost .. LastHost |-> {}]
    /\ a_freed = [ip \in FirstHost .. LastHost |-> -1]
    /\ vm_registry = (1 :> [ip |-> FirstHost, mgr |-> ManagerStart(NewManager, "ok").m])
    /\ taps = {1}
    /\ forward = <<BridgeDrop, PinRule(1, FirstHost)>>
    /\ children = {1}
    /\ vsocks = {1}
    /\ next_id = 1
    /\ calls = [c \in Calls |-> NoCall]
    /\ last = NoResponse
    /\ sd = SdIdle
    /\ created = [v \in VmIds |-> IF v = 1 THEN 1 ELSE 0]
    /\ removed = {}
    /\ deleted = {}
    /\ mgr = NewManager
    /\ mgr_last = NoMgrCall
    /\ mgr_calls = 0
    /\ dns_query = <<>>
    /\ dns_resp = <<>>
    /\ px_reqs = [r \in Requests |-> NoRequest]
    /\ px_rows = <<>>
    /\ ev_mode = "unset"
    /\ ev_next_id = 1
    /\ ev_pending = [k \in Components |-> NoEvent]
    /\ ev_count = [k \in Components |-> 0]
    /\ ev_chan = <<>>
    /\ ev_writer = "unborn"
    /\ ev_batch = <<>>
    /\ ev_table = <<>>
    /\ ev_sent = <<>>
    /\ ev_flushes = 0
    /\ ev_closing = FALSE
    /\ ev_stopped_at = "null"
    /\ ev_acked = FALSE
    /\ ev_failed = {}
    /\ ev_before_close = {}
    /\ ev_emitted = {}
    /\ bridge = TRUE
    /\ nat = NatRules
    /\ net_hist = <<>>
    /\ pr_req = NoParams
    /\ pr_entry = NoParams
    /\ pr_listed = NoParams
    /\ bs_reqs = [r \in BodyRequests |-> NoBodyRequest]
    /\ bs_rows = <<>>
    /\ bs_files = [f \in 0 .. MaxBodyRequests |-> 0]
    /\ ca_cache = [d \in CertDomains |-> 0]
    /\ ca_lock = 0
    /\ ca_tasks = [t \in CertTasks |-> NoCertTask]
    /\ ca_minted = <<>>
    /\ ca_returned = {}
    /\ torn = [v \in VmIds |-> NoTeardown]

\* The proxies serving the guests.
NextProxy ==
    \/ \E r \in Requests, src \in GuestIps : HttpAccept(r, src)
    \/ \E r \in Requests, src \in GuestIps, ok \in BOOLEAN : MitmAccept(r, src, ok)
    \/ \E r \in Requests, kind \in {"dns_udp", "dns_tcp"}, src \in GuestIps,
          pkt \in DnsSamples, bound \in BOOLEAN : DnsAccept(r, kind, src, pkt, bound)
    \/ \E r \in Requests : PxResolve(r)
    \/ \E r \in Requests, ok \in BOOLEAN : PxLogRequest(r, ok)
    \/ \E r \in Requests, out \in AuthOutcomes, dbok \in BOOLEAN : PxAuthorize(r, out, dbok)
    \/ \E r \in Requests, out \in ForwardOutcomes, dbok \in BOOLEAN : PxForward(r, out, dbok)

SpecProxy == InitProxy /\ [][NextProxy]_vars

\* ----------------------------------------------- event store specification
NextEvents ==
    \/ \E mode \in PersistModes : EventStoreNew(mode)
    \/ \E k \in Components, type \in EventTypes : EmitBegin(k, type)
    \/ \E k \in Components : EmitSend(k)
    \/ CloseSession
    \/ WriterRecv
    \/ \E ok, rowok \in BOOLEAN : WriterChannelClosed(ok, rowok)
    \/ \E ok, rowok \in BOOLEAN : WriterClosing(ok, rowok)
    \/ \E ok, rowok \in BOOLEAN : WriterDrain(ok, rowok)

SpecEvents == Init /\ [][NextEvents]_vars

\* ------------------------------------------- NetworkManager specification
\* The chains a host can hold before the server starts: up to MaxStaleRules
\* rules left behind by earlier runs, in any order, copies included.
StaleChains(rules) == UNION {[1 .. n -> rules] : n \in 0 .. MaxStaleRules}

\* The NetworkManager on a host in any state: the bridge present or not, rules
\* and a TAP device left behind or not.
InitBridge ==
    /\ lc_state = "NotStarted"
    /\ lc_old = "NotStarted"
    /\ lc_new = "NotStarted"
    /\ lc_ok = TRUE
    /\ lc_calls = 0
    /\ allocated = [i \in Slots |-> FALSE]
    /\ next_index = 0
    /\ a_live = {}
    /\ a_last = [op |-> "none", ok |-> TRUE, ip |-> NoIp, again |-> FALSE]
    /\ a_calls = 0
    /\ a_ever = {}
    /\ a_swept = [ip \in FirstHost .. LastHost |-> {}]
    /\ a_freed = [ip \in FirstHost .. LastHost |-> -1]
    /\ vm_registry = <<>>
    /\ taps \in SUBSET {1}
    /\ forward \in StaleChains({BridgeDrop, PinRule(1, FirstHost)})
    /\ children = {}
    /\ vsocks = {}
    /\ next_id = 0
    /\ calls = [c \in Calls |-> NoCall]
    /\ last = NoResponse
    /\ sd = SdIdle
    /\ created = [v \in VmIds |-> 0]
    /\ removed = {}
    /\ deleted = {}
    /\ mgr = NewManager
    /\ mgr_last = NoMgrCall
    /\ mgr_calls = 0
    /\ dns_query = <<>>
    /\ dns_resp = <<>>
    /\ px_reqs = [r \in Requests |-> NoRequest]
    /\ px_rows = <<>>
    /\ ev_mode = "unset"
    /\ ev_next_id = 1
    /\ ev_pending = [k \in Components |-> NoEvent]
    /\ ev_count = [k \in Components |-> 0]
    /\ ev_chan = <<>>
    /\ ev_writer = "unborn"
    /\ ev_batch = <<>>
    /\ ev_table = <<>>
    /\ ev_sent = <<>>
    /\ ev_flushes = 0
    /\ ev_closing = FALSE
    /\ ev_stopped_at = "null"
    /\ ev_acked = FALSE
    /\ ev_failed = {}
    /\ ev_before_close = {}
    /\ ev_emitted = {}
    /\ bridge \in BOOLEAN
    /\ nat \in StaleChains({NatRules[i] : i \in DOMAIN NatRules})
    /\ net_hist = <<>>
    /\ pr_req = NoParams
    /\ pr_entry = NoParams
    /\ pr_listed = NoParams
    /\ bs_reqs = [r \in BodyRequests |-> NoBodyRequest]
    /\ bs_rows = <<>>
    /\ bs_files = [f \in 0 .. MaxBodyRequests |-> 0]
    /\ ca_cache = [d \in CertDomains |-> 0]
    /\ ca_lock = 0
    /\ ca_tasks = [t \in CertTasks |-> NoCertTask]
    /\ ca_minted = <<>>
    /\ ca_returned = {}
    /\ torn = [v \in VmIds |-> NoTeardown]

NextBridge ==
    \/ \E out \in EnsureOutcomes : EnsureBridge(out)
    \/ \E tap \in VmIds, out \in CreateTapOutcomes :
          NetCreateTapCall(tap, FirstHost + tap - 1, out)
    \/ \E tap \in VmIds, out \in DeleteTapOutcomes :
          NetDeleteTapCall(tap, FirstHost + tap - 1, out)

SpecBridge == InitBridge /\ [][NextBridge]_vars

\* ------------------------------------------- create_vm parameters alone
NextParams ==
    \/ \E req \in ParamRequests, startok \in BOOLEAN : ParamCreate(req, startok)
    \/ ParamList

SpecParams == Init /\ [][NextParams]_vars

\* --------------------------------------------- CertificateAuthority alone
NextCerts ==
    \/ \E t \in CertTasks, domain \in CertDomains : CertLock(t, domain)
    \/ \E t \in CertTasks, genok \in BOOLEAN : CertFinish(t, genok)

SpecCerts == Init /\ [][NextCerts]_vars

\* ------------------------------------------------------- BodyStore alone
NextBodies ==
    \/ \E r \in BodyRequests, len \in BodyLens, writeok \in BOOLEAN :
          BodyStoreFirst(r, len, writeok)
    \/ \E r \in BodyRequests, dbok \in BOOLEAN : BodyLogRequest(r, dbok)
    \/ \E r \in BodyRequests, writeok \in BOOLEAN : BodyStoreAgain(r, writeok)

SpecBodies == Init /\ [][NextBodies]_vars

\* ------------------------------------------------- allocator specification
NextAlloc ==
    \/ AllocCall
    \/ \E ip \in ReleaseInputs : ReleaseCall(ip)

SpecAlloc == Init /\ [][NextAlloc]_vars

\* ---------------------------------------------------- server specification
Next ==
    \/ \E c \in Calls : CreateBegin(c)
    \/ \E c \in Calls : CreateTap(c)
    \/ \E c \in Calls : CreateStart(c)
    \/ \E c \in Calls : CreateRegister(c)
    \/ \E c \in Calls, s \in IdStrings : DeleteBegin(c, s)
    \/ \E c \in Calls : DeleteStop(c)
    \/ \E c \in Calls : DeleteTap(c)
    \/ \E c \in Calls : DeleteRelease(c)
    \/ \E c \in Calls : ListVms(c)
    \/ \E c \in Calls, s \in IdStrings : ExecBegin(c, s)
    \/ \E c \in Calls : ExecAgent(c)
    \/ Deliver
    \/ ShutdownSignal
    \/ ShutdownRemove
    \/ ShutdownStop
    \/ ShutdownTap
    \/ ShutdownRelease
    \/ ShutdownFinish

Spec == Init /\ [][Next]_vars

\* ------------------------------------------------------------------ checks
\* The pins of the FORWARD chain that name the TAP of VM v.
PinsOf(v) == {i \in DOMAIN forward : forward[i].kind = "pin" /\ forward[i].tap = v}

\* Some VM or some call other than the create_vm of v holds the address ip.
HeldByOther(ip, v) ==
    \/ \E w \in DOMAIN vm_registry : w # v /\ vm_registry[w].ip = ip
    \/ \E c \in Calls : calls[c].id # v /\ calls[c].ip = ip
    \/ sd.id # v /\ sd.ip = ip

\* The ids create_vm has returned and that nobody has removed from the registry.
Live == {v \in VmIds : created[v] >= 1 /\ v \notin removed}

\* The teardown order of a VM.
TeardownOrder == <<"registry", "stop", "tap", "release", "unlink">>
IsPrefix(s, t) == Len(s) <= Len(t) /\ s = SubSeq(t, 1, Len(s))

\* C1 (as claimed): when create_vm has returned an error, the VM it was
\* creating has no registry entry, no TAP device, no source-IP pin and no live
\* hypervisor child, and the address it took is free again or belongs to
\* someone else: the host is as it was before the call.
C1_CreateErrorRestoresHost ==
    (last.op = "create" /\ last.result # "ok") =>
        /\ last.id \notin DOMAIN vm_registry
        /\ last.id \notin taps
        /\ PinsOf(last.id) = {}
        /\ last.id \notin children
        /\ (last.ip # NoIp /\ allocated[last.ip - FirstHost]) => HeldByOther(last.ip, last.id)

\* C2: allocate never returns an address that is live, i.e. one that an
\* earlier allocate returned and that has not been released since.
C2_AllocateNeverReturnsLive ==
    [][AllocCall => (a_last'.ok => a_last'.ip \notin a_live)]_vars

\* C2 witness: allocate has returned an address while another one was live.
C2_Witness ==
    a_last.op = "allocate" /\ a_last.ok /\ Cardinality(a_live) >= 2

C4_ExactlyOneEntryAndPin ==
    /\ \A v \in Live : v \in DOMAIN vm_registry /\ Cardinality(PinsOf(v)) = 1
    /\ \A v \in deleted : v \notin DOMAIN vm_registry /\ PinsOf(v) = {}

\* C5: a list_vms response includes every VM that create_vm has returned and
\* that neither delete_vm nor the shutdown cleanup has removed.
C5_ListIncludesLive ==
    last.op = "list" => Live \subseteq last.listed

\* C5 witness: list_vms has returned while a created VM was in the registry.
C5_Witness ==
    last.op = "list" /\ Live # {}

\* C6: an exec_vm that starts after delete_vm of its id has returned success
\* fails with not_found (and never gets past the registry lookup).
C6_ExecAfterDeleteNotFound ==
    /\ (last.op = "exec" /\ last.late) => last.result = "not_found"
    /\ \A c \in Calls : calls[c].op = "exec" => ~calls[c].late

\* C6 witness: such an exec_vm has returned.
C6_Witness ==
    last.op = "exec" /\ last.late

\* C7: delete_vm runs registry removal, stop, TAP/pin deletion, address
\* release and socket unlink in this order; once the VM is out of the
\* registry every later step runs whatever failed before it, and the call
\* returns success.
C7_DeleteOrderBestEffort ==
    /\ \A c \in Calls : calls[c].op = "delete" =>
          calls[c].steps # <<>> /\ IsPrefix(calls[c].steps, TeardownOrder)
    /\ (last.op = "delete" /\ last.steps # <<>>) =>
          last.result = "ok" /\ last.steps = TeardownOrder

\* C7 witness: a delete_vm in which a step failed has returned success.
C7_Witness ==
    last.op = "delete" /\ last.result = "ok" /\ last.warned

\* C8 (as claimed): the shutdown cleanup runs, for every VM it removes from
\* the registry, the same pipeline as delete_vm, up to the unlink of the
\* host-side guest socket.
C8_ShutdownRunsFullPipeline ==
    \A v \in DOMAIN sd.log :
        /\ IsPrefix(sd.log[v], TeardownOrder)
        /\ sd.id # v => (sd.log[v] = TeardownOrder /\ v \notin vsocks)

\* The transitions listed as legal.
ListedTransitions ==
    {<<"NotStarted", "Starting">>, <<"Starting", "Running">>,
     <<"Running", "Stopping">>, <<"Stopping", "Stopped">>,
     <<"Starting", "Stopping">>, <<"Starting", "Stopped">>,
     <<"Stopped", "Starting">>}

\* C9 (as claimed): transition_to succeeds exactly when the pair is listed or
\* the new state is Error.
C9_OnlyListedTransitions ==
    lc_calls > 0 =>
        (lc_ok <=> (<<lc_old, lc_new>> \in ListedTransitions \/ lc_new = "Error"))

\* C9 (amended): transition_to succeeds exactly when the pair is listed, the
\* new state is Error, or the new state equals the current one (a no-op).
C9_ListedOrSameState ==
    lc_calls > 0 =>
        (lc_ok <=> (\/ <<lc_old, lc_new>> \in ListedTransitions
                    \/ lc_new = "Error"
                    \/ lc_new = lc_old))

\* C9 witness: a transition to the current state (not Error) has succeeded.
C9_Witness ==
    lc_calls > 0 /\ lc_ok /\ lc_new = lc_old /\ lc_new = "Running"

\* C10: a rejected transition_to leaves the lifecycle state as it was.
C10_RejectedKeepsState ==
    (lc_calls > 0 /\ ~lc_ok) => lc_state = lc_old

\* C10 witness: a transition_to out of Running has been rejected.
C10_Witness ==
    lc_calls > 0 /\ ~lc_ok /\ lc_old = "Running"

\* C11 (as claimed): after a call of VmManager::start or VmManager::stop has
\* returned, with Ok or with an error, the manager is neither Starting nor
\* Stopping.
C11_NoIntermediateStateAfterCall ==
    mgr_last.op \in {"start", "stop"} => mgr.state \notin {"Starting", "Stopping"}

\* C12 (as claimed): VmManager::stop, called in any lifecycle state and
\* whichever step warns, returns Ok and leaves the manager Stopped.
C12_StopNeverFails ==
    mgr_last.op = "stop" => (mgr_last.ok /\ mgr.state = "Stopped")

\* C13 (as claimed): when VmManager::start has failed at a stage after the
\* hypervisor child was spawned (socket wait, configuration, start action),
\* the manager is Stopped and holds no live child when start returns.
C13_FailedStartStopsAndKills ==
    (mgr_last.op = "start" /\ ~mgr_last.ok /\ mgr_last.past_spawn) =>
        (mgr.state = "Stopped" /\ ~mgr.child)

\* The 16-bit big-endian field at bytes k, k+1 (offsets as in the code).
DnsField(p, k) == p[k + 1] * 256 + p[k + 2]
\* Bit b (value 2^b) of byte k of a packet.
DnsBit(p, k, b) == (p[k + 1] \div (2 ^ b)) % 2

\* C18: for a query of at least 12 bytes the REFUSED response has the length
\* of the query, its transaction ID (bytes 0-1), its QDCOUNT (bytes 4-5) and
\* its bytes from offset 12 on.
C18_RefusedEchoesIdAndQuestion ==
    Len(dns_query) >= DnsHeaderLen =>
        /\ Len(dns_resp) = Len(dns_query)
        /\ DnsField(dns_resp, 0) = DnsField(dns_query, 0)
        /\ DnsField(dns_resp, 4) = DnsField(dns_query, 4)
        /\ \A i \in (DnsHeaderLen + 1) .. Len(dns_query) : dns_resp[i] = dns_query[i]

\* C18 witness: a response was built for a query that has a question, a
\* non-zero ID and non-zero record counts.
C18_Witness ==
    /\ Len(dns_query) > DnsHeaderLen
    /\ Len(dns_resp) > 0
    /\ DnsField(dns_query, 0) # 0
    /\ DnsField(dns_query, 6) # 0

\* C19 (as claimed): for a query of at least 12 bytes, whatever its flag
\* bits, the REFUSED response has QR=1, AA=0, RCODE=5 and ANCOUNT, NSCOUNT and
\* ARCOUNT zero.
C19_RefusedFlagsAndCounts ==
    Len(dns_query) >= DnsHeaderLen =>
        /\ Len(dns_resp) >= DnsHeaderLen
        /\ DnsBit(dns_resp, 2, 7) = 1
        /\ DnsBit(dns_resp, 2, 2) = 0
        /\ dns_resp[4] % 16 = 5
        /\ DnsField(dns_resp, 6) = 0
        /\ DnsField(dns_resp, 8) = 0
        /\ DnsField(dns_resp, 10) = 0

\* The requests a proxy has read and handles (a connection the TLS MITM
\* dropped never became one).
Inbound == {r \in Requests : px_reqs[r].kind \in {"http", "https", "dns_udp", "dns_tcp"}}
\* The rows log_request inserted for request r.
RowsOf(r) == {i \in DOMAIN px_rows : px_rows[i].req = r}
\* The requests that have gone through the log step.
Logged == {r \in Inbound : px_reqs[r].pc \in {"auth", "forward", "done"}}

C15_EveryRequestAnswered ==
    \A r \in Inbound :
        px_reqs[r].pc = "done" =>
            IF px_reqs[r].kind \in {"http", "https"}
            THEN px_reqs[r].reply \in {"upstream", "403", "502"}
            ELSE px_reqs[r].reply \in {"upstream", "REFUSED", "empty"}

\* Every row has at most one response, recorded by the request that got the
\* row's id from log_request.
ResponsesOnOwnRow ==
    \A i \in DOMAIN px_rows :
        /\ Len(px_rows[i].responses) <= 1
        /\ \A k \in DOMAIN px_rows[i].responses :
              px_reqs[px_rows[i].responses[k]].request_id = i

C17_MitmKeepsSource ==
    \A r \in Inbound :
        (px_reqs[r].kind = "https" /\ px_reqs[r].pc \in {"log", "auth", "forward", "done"})
            => px_reqs[r].vm_id = px_reqs[r].guest

\* The place of an event in the order in which events entered the channel.
SentPos(e) == CHOOSE p \in DOMAIN ev_sent : ev_sent[p] = e

\* C20: the events table holds the events in the order they entered the
\* channel, within a batch and across batches, so the events one component
\* emitted one after another are persisted in the order it emitted them.
C20_EventsPersistedInOrder ==
    \A i, j \in DOMAIN ev_table :
        i < j =>
            /\ \E p \in DOMAIN ev_sent : ev_sent[p] = ev_table[i].ev
            /\ \E p \in DOMAIN ev_sent : ev_sent[p] = ev_table[j].ev
            /\ SentPos(ev_table[i].ev) < SentPos(ev_table[j].ev)
            /\ ev_table[i].ev.comp = ev_table[j].ev.comp
                  => ev_table[i].ev.n < ev_table[j].ev.n

\* C20 witness: the table holds two events of one component committed in one
\* batch and two events of one component committed in different batches.
C20_Witness ==
    /\ \E i, j \in DOMAIN ev_table :
          /\ i < j
          /\ ev_table[i].ev.comp = ev_table[j].ev.comp
          /\ ev_table[i].batch = ev_table[j].batch
    /\ \E i, j \in DOMAIN ev_table :
          /\ i < j
          /\ ev_table[i].ev.comp = ev_table[j].ev.comp
          /\ ev_table[i].batch < ev_table[j].batch

\* The events in the rows of the events table.
Committed == {ev_table[i].ev : i \in DOMAIN ev_table}

Sent == {ev_sent[p] : p \in DOMAIN ev_sent}

LastNetCall == net_hist[Len(net_hist)]

\* C23: an ensure_bridge that follows an ensure_bridge that returned Ok, with
\* no other call in between, changes neither chain (same rules, same number
\* of copies, same order) nor the bridge, whatever the host held before the
\* first of them.
C23_EnsureBridgeIdempotent ==
    [][(/\ net_hist # <<>>
        /\ LastNetCall.op = "ensure_bridge"
        /\ LastNetCall.ok
        /\ Len(net_hist') = Len(net_hist) + 1
        /\ net_hist'[Len(net_hist')].op = "ensure_bridge")
       => /\ nat' = nat
          /\ forward' = forward
          /\ bridge' = bridge]_vars

\* C23 witness: three ensure_bridge calls in a row returned Ok on a host that
\* had no bridge but a stale copy of a redirect rule and of the bridge-wide
\* DROP, so the first call left two copies of each.
C23_Witness ==
    /\ Len(net_hist) = 3
    /\ \A i \in DOMAIN net_hist : net_hist[i].op = "ensure_bridge" /\ net_hist[i].ok
    /\ CountRule(nat, NatRules[1]) = 2
    /\ CountRule(forward, BridgeDrop) = 2

\* An ensure_bridge called directly has returned Ok.
BridgeEnsured == \E i \in DOMAIN net_hist : net_hist[i].op = "ensure_bridge" /\ net_hist[i].ok

\* C24 (as claimed): once ensure_bridge has returned Ok, after any further
\* ensure_bridge, create_tap and delete_tap calls the bridge-wide DROP is the
\* last rule of the FORWARD chain, every source-IP pin is before it, and the
\* redirect rules are installed whenever a pin is.
C24_BridgeDropIsLast ==
    BridgeEnsured =>
        /\ forward # <<>>
        /\ forward[Len(forward)] = BridgeDrop
        /\ \A i \in DOMAIN forward :
              forward[i].kind = "pin" => \E j \in DOMAIN forward : j > i /\ forward[j] = BridgeDrop
        /\ (\E i \in DOMAIN forward : forward[i].kind = "pin")
              => \A k \in DOMAIN NatRules : CountRule(nat, NatRules[k]) >= 1

\* C25 (as claimed): a NetworkManager::create_tap that returns an error for a
\* name that had neither a TAP device nor a pin leaves neither behind.
C25_CreateTapAllOrNothing ==
    [][\A t \in VmIds :
          (/\ Len(net_hist') = Len(net_hist) + 1
           /\ net_hist'[Len(net_hist')] = [op |-> "create_tap", ok |-> FALSE, tap |-> t]
           /\ t \notin taps
           /\ \A i \in DOMAIN forward : forward[i].tap # t)
          => /\ t \notin taps'
             /\ \A i \in DOMAIN forward' : forward'[i].tap # t]_vars

SlotOf(ip) == ip - FirstHost

\* C27: an address released with success and not handed out since is free; no
\* allocate reports exhaustion while there is one; and fewer than PoolSize
\* allocate calls can pass before it is handed out, so it is found within one
\* full sweep of the cursor.
C27_ReleasedIsBackInPool ==
    /\ \A ip \in FirstHost .. LastHost :
          a_freed[ip] >= 0 => /\ ~allocated[SlotOf(ip)]
                              /\ a_freed[ip] < PoolSize
    /\ (a_last.op = "allocate" /\ ~a_last.ok)
          => \A ip \in FirstHost .. LastHost : a_freed[ip] < 0

\* C27 witness: a released address is still free after PoolSize - 1 allocate
\* calls, every other address having been handed out since its release.
C27_Witness ==
    \E ip \in FirstHost .. LastHost :
        /\ a_freed[ip] = PoolSize - 1
        /\ \A other \in (FirstHost .. LastHost) \ {ip} : allocated[SlotOf(other)]

\* C28: when allocate returns an address it has returned before, the address
\* was released in between, and since the earlier allocation the cursor has
\* moved over every other slot of the range.
C28_ReuseAfterFullRound ==
    [][(AllocCall /\ a_last'.ok /\ a_last'.ip \in a_ever)
          => /\ a_last'.ip \notin a_live
             /\ (Slots \ {SlotOf(a_last'.ip)})
                   \subseteq (a_swept[a_last'.ip] \cup Sweep(next_index, a_last'.ip))]_vars

\* C28 witness: allocate has just returned an address for the second time
\* while another address is live.
C28_Witness ==
    /\ a_last.op = "allocate"
    /\ a_last.again
    /\ Cardinality(a_live) >= 2

\* The slots from the cursor up to, not including, the slot of ip.
SlotsBefore(ip) == Sweep(next_index, ip) \ {SlotOf(ip)}

\* C29 (as claimed): after a release(a) that succeeded, if another address is
\* free, the next allocate returns an address other than a.
C29_NextAllocateDiffers ==
    [][(/\ AllocCall
        /\ a_last.op = "release" /\ a_last.ok
        /\ \E j \in Slots \ {SlotOf(a_last.ip)} : ~allocated[j])
       => a_last'.ip # a_last.ip]_vars

\* C29: after a release(a) that succeeded, the next allocate succeeds, and it
\* returns a exactly when every slot from the cursor up to a's slot is
\* allocated; so it returns another address whenever a free one lies between
\* the cursor and a, as when a was the address allocated last.
C29_NextAllocateFromCursor ==
    [][(AllocCall /\ a_last.op = "release" /\ a_last.ok)
       => /\ a_last'.ok
          /\ a_last'.ip = a_last.ip <=> \A j \in SlotsBefore(a_last.ip) : allocated[j]
          /\ (next_index = (SlotOf(a_last.ip) + 1) % PoolSize
                 /\ \E j \in Slots \ {SlotOf(a_last.ip)} : ~allocated[j])
              => a_last'.ip # a_last.ip]_vars

\* C29 witness: release(a) has just succeeded, another address is free, and
\* the cursor stands at a slot from which a is the first free address.
C29_Witness ==
    /\ a_last.op = "release" /\ a_last.ok
    /\ \E j \in Slots \ {SlotOf(a_last.ip)} : ~allocated[j]
    /\ \A j \in SlotsBefore(a_last.ip) : allocated[j]

\* The distance of slot j from the cursor in cyclic order.
CyclicDistance(j) == (j + PoolSize - next_index) % PoolSize

\* C30: allocate returns the free address nearest to the cursor in cyclic
\* order, marks it and moves the cursor one past it; it fails exactly when
\* every slot is allocated, and then changes neither the bitmap nor the
\* cursor; an allocator that has only been asked to allocate hands out the
\* addresses in order from the first one.
C30_FirstFreeFromCursor ==
    [][AllocCall =>
          LET free == {j \in Slots : ~allocated[j]} IN
          /\ IF free = {}
             THEN ~a_last'.ok /\ allocated' = allocated /\ next_index' = next_index
             ELSE /\ a_last'.ok
                  /\ \E j \in free :
                        /\ \A k \in free : CyclicDistance(j) <= CyclicDistance(k)
                        /\ a_last'.ip = FirstHost + j
                        /\ allocated' = [allocated EXCEPT ![j] = TRUE]
                        /\ next_index' = (j + 1) % PoolSize
          /\ (a_calls = Cardinality(a_live) /\ a_calls < PoolSize)
                => a_last'.ip = FirstHost + a_calls]_vars

\* C30 witness: allocate has just failed on a full pool with the cursor away
\* from slot 0.
C30_Witness ==
    /\ a_last.op = "allocate"
    /\ ~a_last.ok
    /\ \A j \in Slots : allocated[j]
    /\ next_index # 0

\* C31 (as claimed): list_vms reports for a VM the vcpu_count and the
\* mem_size_mib its create_vm was asked for (1 and 256 when not given).
C31_ListReportsRequested ==
    pr_listed # NoParams =>
        /\ pr_listed.vcpu = (IF pr_req.vcpu = None THEN 1 ELSE pr_req.vcpu)
        /\ pr_listed.mem = (IF pr_req.mem = None THEN 256 ELSE pr_req.mem)

\* C32 (as claimed): a VmManager::start called in a state other than
\* NotStarted and Stopped returns an error and changes neither the state nor
\* the child process the manager holds.
C32_StartOnlyFromNotStartedOrStopped ==
    [][(/\ mgr_calls' = mgr_calls + 1
        /\ mgr_last'.op = "start"
        /\ mgr.state \notin {"NotStarted", "Stopped"})
       => /\ ~mgr_last'.ok
          /\ mgr' = mgr]_vars

\* C33 (as claimed): when a request whose body was externalized has been
\* logged and its body stored, the path in its row names the file of the
\* row's own id, and that file holds the body of that request.
C33_PathNamesOwnFile ==
    \A i \in DOMAIN bs_rows :
        (bs_rows[i].path # -1 /\ bs_reqs[bs_rows[i].by].pc = "done")
            => /\ bs_rows[i].path = i
               /\ bs_files[bs_rows[i].path] = bs_rows[i].by

\* C34 (as claimed): a body that store accepted is externalized exactly when
\* it is at least 64 KiB long, and inline otherwise.
C34_ExternalFromThreshold ==
    \A r \in BodyRequests :
        (bs_reqs[r].pc # "idle" /\ bs_reqs[r].ok)
            => (bs_reqs[r].kind = "external" <=> bs_reqs[r].len >= DEFAULT_INLINE_THRESHOLD)

\* C35: at most one leaf is minted per domain, every call for a domain
\* returns the one leaf of that domain, and a cached leaf is never evicted
\* or replaced.
C35_OneLeafPerDomain ==
    [][/\ \A i, j \in DOMAIN ca_minted' : ca_minted'[i] = ca_minted'[j] => i = j
       /\ \A p, q \in ca_returned' : p[1] = q[1] => p[2] = q[2]
       /\ \A p \in ca_returned' : ca_minted'[p[2]] = p[1] /\ ca_cache'[p[1]] = p[2]
       /\ \A d \in CertDomains : ca_cache[d] # 0 => ca_cache'[d] = ca_cache[d]]_vars

\* Two tasks have been served the leaf of one domain, a call of a third is
\* holding the mutex for that domain, and a leaf of the other domain exists.
C35_Witness ==
    /\ Len(ca_minted) = 2
    /\ <<"a.test", ca_cache["a.test"]>> \in ca_returned
    /\ ca_lock # 0 /\ ca_tasks[ca_lock].domain = "a.test" /\ ca_cache["a.test"] # 0

\* C36: every VM in the registry has a manager in state Running, the state
\* list_vms reports: no entry is in the registry before its start has
\* succeeded, and none is still there once a teardown holds its manager.
C36_RegisteredIsRunning ==
    \A v \in DOMAIN vm_registry :
        /\ vm_registry[v].mgr.state = "Running"
        /\ sd.id # v
        /\ \A c \in Calls : calls[c].id = v => calls[c].op \notin {"create", "delete"}

\* One VM is in the registry while the manager of another, taken out of the
\* registry by delete_vm, has been stopped.
C36_Witness ==
    /\ DOMAIN vm_registry # {}
    /\ \E c \in Calls : /\ calls[c].op = "delete" /\ calls[c].pc = "tap"
                        /\ calls[c].mgr.state = "Stopped"
                        /\ calls[c].id \notin DOMAIN vm_registry

\* The teardowns of VM v in progress: the delete_vm calls and the shutdown
\* cleanup holding its entry.
Holders(v) ==
    Cardinality({c \in Calls : calls[c].op = "delete" /\ calls[c].id = v})
      + (IF sd.id = v THEN 1 ELSE 0)

\* C37: of the delete_vm calls and the shutdown cleanup racing on one VM,
\* exactly one takes the entry out of the registry and runs the teardown:
\* the hypervisor is stopped once and the address released once, and a
\* delete_vm that returns success is the one that did it.
C37_OneTeardownPerVm ==
    \A v \in VmIds :
        /\ torn[v].removes <= 1
        /\ Holders(v) <= 1
        /\ torn[v].stops <= torn[v].removes
        /\ torn[v].releases <= torn[v].stops
        /\ (torn[v].removes = 1 /\ Holders(v) = 0)
               => (torn[v].stops = 1 /\ torn[v].releases = 1)
        /\ (last.op = "delete" /\ last.result = "ok" /\ last.id = v)
               => (torn[v].releases = 1 /\ Holders(v) = 0)

\* A delete_vm of a VM has just returned not_found while the teardown of
\* that VM by another delete_vm or by the shutdown cleanup is still running.
C37_Witness ==
    \E v \in VmIds :
        /\ created[v] = 1
        /\ last.op = "delete" /\ last.id = v /\ last.result = "not_found"
        /\ Holders(v) = 1
        /\ torn[v].releases = 0

\* C38 (as claimed): once the shutdown cleanup has finished, no VM is in the
\* registry and no address, TAP device or pin rule is left allocated.
C38_NothingLeftAfterShutdown ==
    sd.pc = "done" =>
        /\ DOMAIN vm_registry = {}
        /\ \A i \in DOMAIN allocated : ~allocated[i]
        /\ taps = {}
        /\ \A i \in DOMAIN forward : forward[i] = BridgeDrop

\* C39 (as claimed, a batch whose transaction failed counted as handled): at
\* the step in which the writer handles Close and acknowledges, every Event
\* message in the channel, the ones queued behind the Close included, has
\* been through the flush.
C39_QueuedBehindClosePersisted ==
    [][(~ev_acked /\ ev_acked')
          => \A p \in DOMAIN ev_chan :
                 ev_chan[p] # CloseMsg => ev_chan[p] \in (Committed' \cup ev_failed')]_vars

\* C40 (as claimed): whenever the hypervisor of a VM is running, the address
\* of its guest resolves to the id of that VM: during create_vm and
\* delete_vm, during the shutdown cleanup and in between.
C40_RunningGuestResolves ==
    /\ \A c \in Calls :
           (calls[c].op \in {"create", "delete"} /\ calls[c].id \in children)
               => FindByIp(vm_registry, calls[c].ip) = calls[c].id
    /\ sd.id \in children => FindByIp(vm_registry, sd.ip) = sd.id
    /\ \A v \in DOMAIN vm_registry :
           v \in children => FindByIp(vm_registry, vm_registry[v].ip) = v
====
